---- MODULE Spec2Model ----
(***************************************************************************)
(* The broker messaging client of tracker_microservices                    *)
(* (common/task_tracker_common/messaging/rabbitmq.py, class                *)
(* RabbitMQClient): request/reply calls multiplexed over one reply queue,  *)
(* the command consumer, the event publisher, and the client's lifecycle.  *)
(*                                                                         *)
(* Two client instances are modelled: "gw" (the gateway, which issues      *)
(* call()) and "svc" (a service, which runs consume()).  The event loop is *)
(* single threaded: every action is the code that runs between two awaits. *)
(***************************************************************************)
EXTENDS Integers, Sequences, FiniteSets, TLC

(* ------------------------------ bounds --------------------------------- *)

\* Number of call() invocations made on the gateway client.
MaxCalls == 2

\* prefetch_count that connect() sets on the channel (rabbitmq.py line 61).
ConnectPrefetch == 10

Calls == 1..MaxCalls

\* The call() invocations on a second client.
PeerCalls == {MaxCalls + 1}

AllCalls == Calls \cup PeerCalls

Clients == {"gw", "svc"}

\* The values uuid.uuid4() can return; one more than the calls made.
Ids == 1..(MaxCalls + 1)

\* message.correlation_id of a message published without one.
NoCid == 0

\* The one command queue of the model (e.g. "tasks.commands").
CmdQueue == "cmd"

\* Number of messages an arbitrary peer publishes to a reply queue.
MaxReplies == 2

\* Number of commands an arbitrary peer publishes to the command queue.
MaxCommands == 2

\* Consumers one client starts on the command queue.
MaxConsumers == 2

\* Number of events published.
MaxEvents == 1

\* Deliveries of events, redeliveries included.
MaxDeliveries == 2

\* prefetch_count values passed to consume().
PrefetchChoices == {1, 2}

(* ------------------------------ payloads ------------------------------- *)

\* A Python value inside a payload: a list, a tuple, a date object, or no
\* value at all (key absent).
NoData == [shape |-> "none", v |-> 0]

PyData == {[shape |-> "list", v |-> 1], [shape |-> "tuple", v |-> 1],
           [shape |-> "date", v |-> 1]}

\* Response mappings a handler may return ("" stands for an absent key).
Response(s, d, e, t) == [success |-> s, data |-> d, error |-> e, error_type |-> t]

HandlerResponses == {Response(TRUE, d, "", "") : d \in PyData}

\* Failure mappings the handlers of the services return.
HandlerFailures == {Response(FALSE, NoData, "Task not found", ""),
                    Response(FALSE, NoData, "Unknown command", "UnknownCommand")}

\* Mappings a callback passed to consume() may also return: success without
\* data, failure with data and without error.
OtherMappings == {Response(TRUE, NoData, "", ""),
                  Response(FALSE, [shape |-> "list", v |-> 1], "", "")}

\* Exceptions a handler may raise (type name, str(e)).
HandlerErrors == {[type |-> "ValueError", text |-> "bad input"]}

\* Command payloads passed to call().
Requests == {[command |-> "get_task", data |-> [shape |-> "list", v |-> 1]],
             [command |-> "create_task", data |-> [shape |-> "date", v |-> 1]]}

(* ------------------------------ json codec ----------------------------- *)

\* json.dumps raises TypeError on an object that is not JSON serialisable.
Serializable(d) == d.shape # "date"

\* The JSON text of a data value: lists and tuples are both written as arrays.
JsonOfData(d) == IF d.shape \in {"list", "tuple"} THEN [shape |-> "array", v |-> d.v]
                 ELSE [shape |-> "null", v |-> 0]

\* The Python value json.loads builds from a JSON value: an array is a list.
DataOfJson(j) == IF j.shape = "array" THEN [shape |-> "list", v |-> j.v]
                 ELSE NoData

\* json.dumps(mapping).encode() for a mapping whose values are serialisable.
dumps(m) == [valid |-> TRUE, doc |-> [m EXCEPT !.data = JsonOfData(m.data)]]

\* A decoder that hands out the JSON document as it is.
loads_raw(b) == b.doc

\* json.loads(body.decode()) of a well-formed body.
loads(b) == [b.doc EXCEPT !.data = DataOfJson(b.doc.data)]

\* A body that is not JSON: json.loads raises JSONDecodeError.
Garbage == [valid |-> FALSE, doc |-> Response(FALSE, [shape |-> "null", v |-> 0], "", "")]

\* An error reply that reports success.
error_response_success(e) == Response(TRUE, NoData, e.text, e.type)

\* An error reply that carries data as well.
error_response_with_data(e) == Response(FALSE, [shape |-> "list", v |-> 1], e.text, e.type)

\* The error reply wrapped_callback builds from an exception.
error_response(e) == Response(FALSE, NoData, e.text, e.type)

TypeErrorExc == [type |-> "TypeError", text |-> "not JSON serializable"]
DecodeErrorExc == [type |-> "JSONDecodeError", text |-> "Expecting value"]
ChannelErrorExc == [type |-> "ChannelInvalidStateError", text |-> "channel closed"]

(* ------------------------------ state ---------------------------------- *)

VARIABLES
    connection,      \* self.connection: "None", "open", "closed"   (per client)
    channel,         \* self.channel: "None", "open", "closed"      (per client)
    callback_queue,  \* self.callback_queue: "None" or "set"        (per client)
    setupPc,         \* position of a running setup_rpc_client()    (per client)
    events_exchange, \* self.events_exchange: "None", or the state ("open",
                     \* "closed") of the channel the exchange object belongs to
    futures,         \* self.futures: correlation id -> the call owning the Future
    connPc,          \* position of a running connect()             (per client)
    closePc,         \* position of a running close()               (per client)
    qos,             \* prefetch count of the client's channel
    callPc,          \* position of each call() invocation
    callReq,         \* the message argument of each call()
    callCid,         \* the correlation_id local of each call()
    fut,             \* the Future local of each call(): [state, value]
    outcome,         \* what each call() returned or raised
    generated,       \* correlation ids uuid4() has returned so far
    cmdDeclared,     \* broker: the command queue exists
    cmdQ,            \* broker: messages ready in the command queue
    replyQ,          \* broker: messages ready in each client's reply queue
    rpcConsuming,    \* broker: the reply queue is consumed by the listener
    replyDeclared,   \* broker: the reply queue exists
    consuming,       \* broker: the client's consumers of the command queue, in the
                     \* order they were started: the prefetch each was given and
                     \* the limit the broker applies to it
    deliveries,      \* wrapped_callback runs, one per delivered command
    foreign,         \* number of messages an arbitrary peer has published so far
    warnings,        \* correlation ids the reply listener logged a dropped reply for
    rpcDeliveries,   \* _on_rpc_response runs, one per reply delivered to a listener
    tables,          \* database: the rows of the "user" table and of the tag table
    creates,         \* runs of handle_create_user and handle_create_tag
    dispatched,      \* calls of handle_command: the payload and what came of it
    eventLog,        \* broker: the events published to the events exchange, each with
                     \* the routing_key argument of its publish_event()
    bindings,        \* broker: the binding keys of each client's event queue
    eventQ,          \* broker: events ready in each client's event queue
    evConsuming,     \* broker: the client consumes its event queue
    evDeliveries,    \* runs of the subscriber's wrapped_callback, one per delivered event
    lastOp           \* the setup or consume operation completed last, and how it ended

clientVars == <<connection, channel, callback_queue, setupPc, events_exchange, connPc, closePc, qos>>
callVars == <<futures, callPc, callReq, callCid, fut, outcome, generated>>
brokerVars == <<cmdDeclared, cmdQ, replyQ, rpcConsuming, replyDeclared, consuming>>
eventVars == <<eventLog, bindings, eventQ, evConsuming, evDeliveries>>
handlerVars == <<tables, creates, dispatched>>
vars == <<clientVars, callVars, brokerVars, deliveries, foreign, warnings, rpcDeliveries, handlerVars, eventVars, lastOp>>

\* The empty dict.
EmptyMap == [i \in {} |-> 0]

NoValue == Response(FALSE, NoData, "", "")

\* A Future: its state, its result (when it has one) and, for the record, the
\* correlation id of the reply that completed it.
Future(st, val, src) == [state |-> st, value |-> val, src |-> src]

PendingFuture == Future("pending", NoValue, NoCid)
NoFuture == Future("none", NoValue, NoCid)

\* How a call() ended: kind is "return" or the name of the exception raised.
Outcome(kind, val) == [kind |-> kind, value |-> val]

NoOutcome == Outcome("none", NoValue)

\* The client a call() is invoked on.
ClientOf(c) == IF c \in Calls THEN "gw" ELSE "svc"

\* dict.pop(key, None).
pop(d, key) == [i \in (DOMAIN d) \ {key} |-> d[i]]

\* d[key] = val.
setitem(d, key, val) == [i \in (DOMAIN d) \cup {key} |-> IF i = key THEN val ELSE d[i]]

\* A message: correlation_id, reply_to ("" when absent) and body.
Message(cid, reply_to, body) == [cid |-> cid, reply_to |-> reply_to, body |-> body]

Done(f) == f.state \in {"result", "exception", "cancelled"}

Init ==
    /\ connection = [k \in Clients |-> "None"]
    /\ channel = [k \in Clients |-> "None"]
    /\ callback_queue = [k \in Clients |-> "None"]
    /\ setupPc = [k \in Clients |-> "idle"]
    /\ events_exchange = [k \in Clients |-> "None"]
    /\ futures = [k \in Clients |-> EmptyMap]
    /\ connPc = [k \in Clients |-> "idle"]
    /\ closePc = [k \in Clients |-> "idle"]
    /\ qos = [k \in Clients |-> 0]
    /\ callPc = [c \in AllCalls |-> "idle"]
    /\ callReq = [c \in AllCalls |-> [command |-> "none", data |-> NoData]]
    /\ callCid = [c \in AllCalls |-> NoCid]
    /\ fut = [c \in AllCalls |-> NoFuture]
    /\ outcome = [c \in AllCalls |-> NoOutcome]
    /\ generated = {}
    /\ cmdDeclared = FALSE
    /\ cmdQ = <<>>
    /\ replyQ = [k \in Clients |-> <<>>]
    /\ rpcConsuming = [k \in Clients |-> FALSE]
    /\ replyDeclared = [k \in Clients |-> FALSE]
    /\ consuming = [k \in Clients |-> <<>>]
    /\ deliveries = {}
    /\ foreign = 0
    /\ warnings = {}
    /\ rpcDeliveries = {}
    /\ tables = [t \in {"user", "tag"} |-> {}]
    /\ creates = {}
    /\ dispatched = {}
    /\ eventLog = <<>>
    /\ bindings = [k \in Clients |-> {}]
    /\ eventQ = [k \in Clients |-> <<>>]
    /\ evConsuming = [k \in Clients |-> FALSE]
    /\ evDeliveries = {}
    /\ lastOp = [client |-> "gw", op |-> "none", result |-> "none", n |-> 0]

\* The record of a completed operation; n alternates, so that two equal
\* operations in a row are two records.
Op(k, op, result) == [client |-> k, op |-> op, result |-> result, n |-> 1 - lastOp.n]

(* ------------------------------ connect / close ------------------------ *)

\* connect(), line 57: connect_robust() returns and self.connection is set.
\* The bootstrap runs one lifecycle operation of a client at a time and does
\* not connect a client whose channel is open.
connect_connection(k) ==
    /\ connPc[k] = "idle" /\ closePc[k] = "idle"
    /\ channel[k] # "open"
    /\ connection' = [connection EXCEPT ![k] = "open"]
    /\ connPc' = [connPc EXCEPT ![k] = "l58"]
    /\ UNCHANGED <<channel, callback_queue, setupPc, events_exchange, closePc, qos,
                   callVars, brokerVars, deliveries, foreign, warnings, rpcDeliveries, handlerVars, eventVars, lastOp>>

\* connect(), line 58: a new channel is opened and self.channel is set.
connect_channel(k) ==
    /\ connPc[k] = "l58"
    /\ channel' = [channel EXCEPT ![k] = "open"]
    /\ qos' = [qos EXCEPT ![k] = 0]
    /\ connPc' = [connPc EXCEPT ![k] = "l61"]
    /\ UNCHANGED <<connection, callback_queue, setupPc, events_exchange, closePc,
                   callVars, brokerVars, deliveries, foreign, warnings, rpcDeliveries, handlerVars, eventVars, lastOp>>

\* connect(), line 61: set_qos(prefetch_count=10); connect() returns.
connect_qos(k) ==
    /\ connPc[k] = "l61"
    /\ qos' = [qos EXCEPT ![k] = ConnectPrefetch]
    /\ connPc' = [connPc EXCEPT ![k] = "idle"]
    /\ UNCHANGED <<connection, channel, callback_queue, setupPc, events_exchange, closePc,
                   callVars, brokerVars, deliveries, foreign, warnings, rpcDeliveries, handlerVars, eventVars, lastOp>>

\* connect(), lines 65-67: a broker call raised; the exception is logged and
\* re-raised, the fields already set stay as they are.
connect_fail(k) ==
    /\ connPc[k] \in {"l58", "l61"}
    /\ connPc' = [connPc EXCEPT ![k] = "idle"]
    /\ UNCHANGED <<connection, channel, callback_queue, setupPc, events_exchange, closePc, qos,
                   callVars, brokerVars, deliveries, foreign, warnings, rpcDeliveries, handlerVars, eventVars, lastOp>>

\* The messages of a set of runs, in the order they were delivered.
RECURSIVE InTagOrder(_)
InTagOrder(runs) ==
    IF runs = {} THEN <<>>
    ELSE LET d == CHOOSE x \in runs : \A y \in runs : x.tag <= y.tag
         IN <<d.msg>> \o InTagOrder(runs \ {d})

\* The runs of client k whose message is delivered on its open channel and
\* not yet acknowledged or rejected.
InFlight(runs, k) ==
    {d \in runs : d.client = k /\ d.live /\ d.pc \in {"handler", "exit_ok", "exit_exc"}}

\* What the broker does when a channel closes: the channel's consumers are
\* cancelled, its exclusive auto-delete reply queue is deleted with its
\* messages, and the messages delivered on it and not yet acknowledged go
\* back to the head of their queue; the runs that hold them can no longer
\* acknowledge them.
BrokerDropChannel(k) ==
    /\ rpcConsuming' = [rpcConsuming EXCEPT ![k] = FALSE]
    /\ replyDeclared' = [replyDeclared EXCEPT ![k] = FALSE]
    /\ replyQ' = [replyQ EXCEPT ![k] = <<>>]
    /\ consuming' = [consuming EXCEPT ![k] = <<>>]
    /\ evConsuming' = [evConsuming EXCEPT ![k] = FALSE]
    /\ cmdQ' = InTagOrder(InFlight(deliveries, k)) \o cmdQ
    /\ eventQ' = [eventQ EXCEPT ![k] = InTagOrder(InFlight(evDeliveries, k)) \o @]
    /\ deliveries' = {IF d \in InFlight(deliveries, k)
                       THEN [d EXCEPT !.live = FALSE] ELSE d : d \in deliveries}
    /\ evDeliveries' = {IF d \in InFlight(evDeliveries, k)
                         THEN [d EXCEPT !.live = FALSE] ELSE d : d \in evDeliveries}
    /\ UNCHANGED cmdDeclared

\* A close() that would fail the pending calls: every pending Future gets an
\* exception and the table is emptied.  The code does not do this.
close_channel_failing_pending(k) ==
    /\ closePc[k] = "idle" /\ connPc[k] = "idle"
    /\ closePc' = [closePc EXCEPT ![k] = "l75"]
    /\ IF channel[k] = "open"
       THEN /\ channel' = [channel EXCEPT ![k] = "closed"]
            /\ events_exchange' = [events_exchange EXCEPT ![k] =
                                     IF @ = "open" THEN "closed" ELSE @]
            /\ BrokerDropChannel(k)
       ELSE UNCHANGED <<channel, events_exchange, brokerVars, deliveries, eventQ,
                        evConsuming, evDeliveries>>
    /\ fut' = [c \in AllCalls |-> IF fut[c].state = "pending" /\ ClientOf(c) = k
                                THEN Future("exception", NoValue, NoCid) ELSE fut[c]]
    /\ futures' = [futures EXCEPT ![k] = EmptyMap]
    /\ UNCHANGED <<connection, callback_queue, setupPc, connPc, qos, callPc, callReq, callCid,
                   outcome, generated, foreign, warnings, rpcDeliveries, handlerVars, eventLog, bindings, lastOp>>

\* close(), lines 72-73: the channel is closed if there is an open one.
\* Nothing else of the client is touched: self.futures, self.callback_queue
\* and self.events_exchange keep their values (the exchange object now
\* belongs to a closed channel).
close_channel(k) ==
    /\ closePc[k] = "idle" /\ connPc[k] = "idle"
    /\ closePc' = [closePc EXCEPT ![k] = "l75"]
    /\ IF channel[k] = "open"
       THEN /\ channel' = [channel EXCEPT ![k] = "closed"]
            /\ events_exchange' = [events_exchange EXCEPT ![k] =
                                     IF @ = "open" THEN "closed" ELSE @]
            /\ BrokerDropChannel(k)
       ELSE UNCHANGED <<channel, events_exchange, brokerVars, deliveries, eventQ,
                        evConsuming, evDeliveries>>
    /\ UNCHANGED <<connection, callback_queue, setupPc, connPc, qos,
                   callVars, foreign, warnings, rpcDeliveries, handlerVars, eventLog, bindings, lastOp>>

\* A closed client that reconnects by itself: the connection stays up and a
\* new channel is opened.
close_connection_reconnecting(k) ==
    /\ closePc[k] = "l75"
    /\ closePc' = [closePc EXCEPT ![k] = "idle"]
    /\ channel' = [channel EXCEPT ![k] = IF @ = "closed" THEN "open" ELSE @]
    /\ UNCHANGED <<connection, callback_queue, setupPc, events_exchange, connPc, qos,
                   callVars, brokerVars, deliveries, foreign, warnings, rpcDeliveries, handlerVars, eventVars, lastOp>>

\* close(), lines 75-78: the connection is closed if there is an open one.
close_connection(k) ==
    /\ closePc[k] = "l75"
    /\ closePc' = [closePc EXCEPT ![k] = "idle"]
    /\ connection' = [connection EXCEPT ![k] =
                        IF connection[k] = "open" THEN "closed" ELSE connection[k]]
    /\ UNCHANGED <<channel, callback_queue, setupPc, events_exchange, connPc, qos,
                   callVars, brokerVars, deliveries, foreign, warnings, rpcDeliveries, handlerVars, eventVars, lastOp>>

\* close(), lines 72-73 and 80-81: channel.close() raises.  The exception
\* leaves the try block past lines 75-76, is logged, and close() returns: the
\* connection is not closed.  The channel is left as it was.
close_channel_fail(k) ==
    /\ closePc[k] = "idle" /\ connPc[k] = "idle"
    /\ channel[k] = "open"
    /\ lastOp' = Op(k, "close", "logged")
    /\ UNCHANGED <<clientVars, callVars, brokerVars, deliveries, foreign, warnings, rpcDeliveries, handlerVars, eventVars>>

\* close(), lines 75-76 and 80-81: connection.close() raises; the exception
\* is logged and close() returns.
close_connection_fail(k) ==
    /\ closePc[k] = "l75"
    /\ connection[k] = "open"
    /\ closePc' = [closePc EXCEPT ![k] = "idle"]
    /\ lastOp' = Op(k, "close", "logged")
    /\ UNCHANGED <<connection, channel, callback_queue, setupPc, events_exchange, connPc, qos,
                   callVars, brokerVars, deliveries, foreign, warnings, rpcDeliveries, handlerVars, eventVars>>

(* ------------------------------ RPC client ----------------------------- *)

\* setup_rpc_client(), lines 90-98: RuntimeError without a channel; a broker
\* error on a closed channel; otherwise the exclusive reply queue is declared
\* and self.callback_queue is set.  The bootstrap calls it once per client.
setup_rpc_client(k) ==
    /\ setupPc[k] = "idle"
    /\ callback_queue[k] = "None"
    /\ IF channel[k] = "None"
       THEN /\ lastOp' = Op(k, "setup_rpc_client", "RuntimeError")
            /\ UNCHANGED <<callback_queue, setupPc, replyDeclared>>
       ELSE IF channel[k] = "closed"
       THEN /\ lastOp' = Op(k, "setup_rpc_client", "ChannelInvalidStateError")
            /\ UNCHANGED <<callback_queue, setupPc, replyDeclared>>
       ELSE /\ callback_queue' = [callback_queue EXCEPT ![k] = "set"]
            /\ replyDeclared' = [replyDeclared EXCEPT ![k] = TRUE]
            /\ setupPc' = [setupPc EXCEPT ![k] = "l101"]
            /\ UNCHANGED lastOp
    /\ UNCHANGED <<connection, channel, events_exchange, connPc, closePc, qos,
                   callVars, cmdDeclared, cmdQ, replyQ, rpcConsuming, consuming, deliveries,
                   foreign, warnings, rpcDeliveries, handlerVars, eventVars>>

\* setup_rpc_client(), lines 100-103: the listener is started on the reply
\* queue and the operation returns; on a channel closed meanwhile the broker
\* call raises.
setup_rpc_consume(k) ==
    /\ setupPc[k] = "l101"
    /\ setupPc' = [setupPc EXCEPT ![k] = "idle"]
    /\ IF channel[k] = "open" /\ replyDeclared[k]
       THEN /\ rpcConsuming' = [rpcConsuming EXCEPT ![k] = TRUE]
            /\ lastOp' = Op(k, "setup_rpc_client", "ok")
       ELSE /\ lastOp' = Op(k, "setup_rpc_client", "ChannelInvalidStateError")
            /\ UNCHANGED rpcConsuming
    /\ UNCHANGED <<connection, channel, callback_queue, events_exchange, connPc, closePc, qos,
                   callVars, cmdDeclared, cmdQ, replyQ, replyDeclared, consuming, deliveries,
                   foreign, warnings, rpcDeliveries, handlerVars, eventVars>>

\* A generator that returns the same id again.
uuid4_repeating == {1}

\* uuid.uuid4(): a value that was not returned before (which one does not
\* matter: the least).
uuid4 == {i \in Ids \ generated : \A j \in Ids \ generated : i <= j}

\* A call() that leaves the registration of its Future for later.
call_register_without_insert(c, p) ==
    /\ callPc[c] = "idle"
    /\ callback_queue[ClientOf(c)] # "None"
    /\ \E id \in uuid4 :
         /\ callCid' = [callCid EXCEPT ![c] = id]
         /\ generated' = generated \cup {id}
         /\ fut' = [fut EXCEPT ![c] = PendingFuture]
         /\ callReq' = [callReq EXCEPT ![c] = p]
         /\ callPc' = [callPc EXCEPT ![c] = "publish"]
         /\ UNCHANGED <<outcome, futures>>
    /\ UNCHANGED <<clientVars, brokerVars, deliveries, foreign, warnings, rpcDeliveries, handlerVars, eventVars, lastOp>>

\* call() without the guard of lines 126-127.
call_register_unguarded(c, p) ==
    LET k == ClientOf(c) IN
    /\ callPc[c] = "idle"
    /\ \E id \in uuid4 :
         /\ callCid' = [callCid EXCEPT ![c] = id]
         /\ generated' = generated \cup {id}
         /\ fut' = [fut EXCEPT ![c] = PendingFuture]
         /\ futures' = [futures EXCEPT ![k] = setitem(@, id, c)]
         /\ callReq' = [callReq EXCEPT ![c] = p]
         /\ callPc' = [callPc EXCEPT ![c] = "publish"]
         /\ UNCHANGED outcome
    /\ UNCHANGED <<clientVars, brokerVars, deliveries, foreign, warnings, rpcDeliveries, handlerVars, eventVars, lastOp>>

\* call(), lines 126-131: the guard, the correlation id, the Future and its
\* registration in self.futures (no await in between).
call_register(c, p) ==
    LET k == ClientOf(c) IN
    /\ callPc[c] = "idle"
    /\ IF callback_queue[k] = "None"
       THEN /\ callPc' = [callPc EXCEPT ![c] = "done"]
            /\ outcome' = [outcome EXCEPT ![c] = Outcome("RuntimeError", NoValue)]
            /\ UNCHANGED <<futures, callReq, callCid, fut, generated>>
       ELSE \E id \in uuid4 :
            /\ callCid' = [callCid EXCEPT ![c] = id]
            /\ generated' = generated \cup {id}
            /\ fut' = [fut EXCEPT ![c] = PendingFuture]
            /\ futures' = [futures EXCEPT ![k] = setitem(@, id, c)]
            /\ callReq' = [callReq EXCEPT ![c] = p]
            /\ callPc' = [callPc EXCEPT ![c] = "publish"]
            /\ UNCHANGED outcome
    /\ UNCHANGED <<clientVars, brokerVars, deliveries, foreign, warnings, rpcDeliveries, handlerVars, eventVars, lastOp>>

\* The default exchange routes a message to the queue named by its routing
\* key; a message for a queue that does not exist is discarded.
RouteCommand(m) == IF cmdDeclared THEN Append(cmdQ, m) ELSE cmdQ

\* An exchange that copies a reply to the reply queue of every client.
RouteReply_fanout(q, to, m) ==
    [k \in Clients |-> IF replyDeclared[k] THEN Append(q[k], m) ELSE q[k]]

RouteReply(q, to, m) ==
    IF to \in Clients /\ replyDeclared[to]
    THEN [q EXCEPT ![to] = Append(@, m)]
    ELSE q

\* A finally block that empties the table.
call_cleanup_all(c) == [futures EXCEPT ![ClientOf(c)] = EmptyMap]

\* A call() without the finally block: the entry stays.
call_cleanup_skipped(c) == futures

\* The finally block of call(), line 162.
call_cleanup(c) == [futures EXCEPT ![ClientOf(c)] = pop(@, callCid[c])]

\* call(), lines 133-148: the request is encoded and published; an exception
\* raised here leaves through the finally block.
call_publish(c) ==
    LET k == ClientOf(c) IN
    /\ callPc[c] = "publish"
    /\ IF ~Serializable(callReq[c].data) \/ channel[k] # "open"
       THEN /\ callPc' = [callPc EXCEPT ![c] = "done"]
            /\ futures' = call_cleanup(c)
            /\ outcome' = [outcome EXCEPT ![c] =
                  Outcome(IF ~Serializable(callReq[c].data) THEN "TypeError"
                          ELSE "ChannelInvalidStateError", NoValue)]
            /\ UNCHANGED cmdQ
       ELSE /\ cmdQ' = RouteCommand(Message(callCid[c], k, dumps(callReq[c])))
            /\ callPc' = [callPc EXCEPT ![c] = "wait"]
            /\ UNCHANGED <<futures, outcome>>
    /\ UNCHANGED <<clientVars, callReq, callCid, fut, generated,
                   cmdDeclared, replyQ, rpcConsuming, replyDeclared, consuming, deliveries, foreign, warnings, rpcDeliveries, handlerVars, eventVars, lastOp>>

\* One deadline for all calls: the timeout of a call cancels every pending
\* Future of the client.
call_timeout_cancelling_all(c) ==
    /\ callPc[c] = "wait"
    /\ fut[c].state \in {"pending", "result", "exception"}
    /\ callPc' = [callPc EXCEPT ![c] = "timedout"]
    /\ fut' = [o \in AllCalls |->
                 IF ClientOf(o) = ClientOf(c) /\ fut[o].state = "pending"
                 THEN Future("cancelled", NoValue, NoCid) ELSE fut[o]]
    /\ UNCHANGED <<clientVars, futures, callReq, callCid, outcome, generated,
                   brokerVars, deliveries, foreign, warnings, rpcDeliveries, handlerVars, eventVars, lastOp>>

\* A timeout that leaves the Future pending (as if the Future were shielded).
call_timeout_shielded(c) ==
    /\ callPc[c] = "wait"
    /\ fut[c].state \in {"pending", "result", "exception"}
    /\ callPc' = [callPc EXCEPT ![c] = "timedout"]
    /\ UNCHANGED <<clientVars, futures, callReq, callCid, fut, outcome, generated,
                   brokerVars, deliveries, foreign, warnings, rpcDeliveries, handlerVars, eventVars, lastOp>>

\* A timer that runs on the channel: the timeout expires only while the
\* client's channel is open.
call_timeout_on_open_channel(c) ==
    /\ callPc[c] = "wait"
    /\ channel[ClientOf(c)] = "open"
    /\ fut[c].state \in {"pending", "result", "exception"}
    /\ callPc' = [callPc EXCEPT ![c] = "timedout"]
    /\ fut' = [fut EXCEPT ![c] =
                 IF @.state = "pending" THEN Future("cancelled", NoValue, NoCid) ELSE @]
    /\ UNCHANGED <<clientVars, futures, callReq, callCid, outcome, generated,
                   brokerVars, deliveries, foreign, warnings, rpcDeliveries, handlerVars, eventVars, lastOp>>

\* call(), line 151: the timeout of wait_for expires.  A Future still pending
\* is cancelled.  When the Future was completed but the call has not resumed
\* yet, the interpreter decides: wait_for returns the result (no step here),
\* or the call is cancelled and raises TimeoutError.
call_timeout(c) ==
    /\ callPc[c] = "wait"
    /\ fut[c].state \in {"pending", "result", "exception"}
    /\ callPc' = [callPc EXCEPT ![c] = "timedout"]
    /\ fut' = [fut EXCEPT ![c] =
                 IF @.state = "pending" THEN Future("cancelled", NoValue, NoCid) ELSE @]
    /\ UNCHANGED <<clientVars, futures, callReq, callCid, outcome, generated,
                   brokerVars, deliveries, foreign, warnings, rpcDeliveries, handlerVars, eventVars, lastOp>>

\* call(), lines 152-162: the call resumes; it returns the result of the
\* Future, or raises its exception or TimeoutError; the finally block removes
\* the entry.
call_return(c) ==
    /\ \/ callPc[c] = "wait" /\ fut[c].state \in {"result", "exception"}
       \/ callPc[c] = "timedout"
    /\ callPc' = [callPc EXCEPT ![c] = "done"]
    /\ outcome' = [outcome EXCEPT ![c] =
          IF callPc[c] = "timedout" THEN Outcome("TimeoutError", NoValue)
          ELSE IF fut[c].state = "result" THEN Outcome("return", fut[c].value)
          ELSE Outcome("JSONDecodeError", NoValue)]
    /\ futures' = call_cleanup(c)
    /\ UNCHANGED <<clientVars, callReq, callCid, fut, generated, brokerVars, deliveries,
                   foreign, warnings, rpcDeliveries, handlerVars, eventVars, lastOp>>

\* call(), lines 135-151 and 160-162: the task that runs call() is cancelled
\* while it awaits the publish or the reply.  CancelledError is raised at the
\* await, wait_for cancels the Future it waits for, and the finally block
\* removes the entry.
call_cancel(c) ==
    /\ callPc[c] \in {"publish", "wait"}
    /\ callPc' = [callPc EXCEPT ![c] = "done"]
    /\ outcome' = [outcome EXCEPT ![c] = Outcome("CancelledError", NoValue)]
    /\ fut' = [fut EXCEPT ![c] =
                 IF @.state = "pending" THEN Future("cancelled", NoValue, NoCid) ELSE @]
    /\ futures' = call_cleanup(c)
    /\ UNCHANGED <<clientVars, callReq, callCid, generated, brokerVars, deliveries,
                   foreign, warnings, rpcDeliveries, handlerVars, eventVars, lastOp>>

\* A lookup by arrival order: the oldest entry, whatever the id.
futures_get_oldest(k, cid) ==
    IF DOMAIN futures[k] = {} THEN 0
    ELSE futures[k][CHOOSE i \in DOMAIN futures[k] : \A j \in DOMAIN futures[k] : i <= j]

\* A lookup that falls back to some entry when the id is unknown.
futures_get_or_any(k, cid) ==
    IF cid \in DOMAIN futures[k] THEN futures[k][cid]
    ELSE IF DOMAIN futures[k] = {} THEN 0
    ELSE futures[k][CHOOSE i \in DOMAIN futures[k] : TRUE]

\* self.futures.get(correlation_id): the call whose Future is registered
\* under the id, 0 for None.
futures_get(k, cid) == IF cid \in DOMAIN futures[k] THEN futures[k][cid] ELSE 0

\* The drop test without `or future.done()`.
Dropped_without_done_check(k, m) ==
    \/ m.cid = NoCid
    \/ futures_get(k, m.cid) = 0

\* _on_rpc_response(), lines 169-179: TRUE when the message is dropped.
Dropped(k, m) ==
    \/ m.cid = NoCid
    \/ futures_get(k, m.cid) = 0
    \/ Done(fut[futures_get(k, m.cid)])

\* A listener that swallows the decoding error: the Future stays as it is.
Resolve_ignoring_decode_error(f, m) ==
    IF m.body.valid THEN Future("result", loads(m.body), m.cid) ELSE f

\* The Future after lines 181-190: the decoded body as its result, or the
\* decoding error as its exception.
Resolve(f, m) ==
    IF m.body.valid THEN Future("result", loads(m.body), m.cid)
    ELSE Future("exception", NoValue, m.cid)

\* The path _on_rpc_response() takes for the message m: the return of line
\* 171, the return of line 179, lines 182-183, or the except block of lines
\* 188-190.
Branch(k, m) ==
    IF m.cid = NoCid THEN "no_correlation_id"
    ELSE IF Dropped(k, m) THEN "unmatched"
    ELSE IF m.body.valid THEN "resolved"
    ELSE "decode_error"

\* A listener whose except block ends with `raise`: the decoding error leaves
\* message.process(), which rejects the message.
rpc_process_exit_reraising(b) == IF b = "decode_error" THEN "rejected" ELSE "acked"

\* Leaving message.process() in _on_rpc_response(), line 166: both returns
\* and the end of the try statement leave the block normally, and the except
\* block of lines 188-190 catches whatever lines 182-183 raise, so the
\* message is acknowledged on every path.
rpc_process_exit(b) == "acked"

\* One run of _on_rpc_response(): the client, the delivery tag, the path taken
\* and how message.process() was left.
RpcDelivery(k, m) ==
    [client |-> k, tag |-> Cardinality({r \in rpcDeliveries : r.client = k}) + 1,
     branch |-> Branch(k, m), pc |-> rpc_process_exit(Branch(k, m))]

\* _on_rpc_response(): one reply is taken from the reply queue, handled
\* without an await, and acknowledged on leaving message.process().  A
\* dropped reply is logged with a warning (lines 170 and 175-178).
on_rpc_response(k) ==
    /\ rpcConsuming[k]
    /\ replyQ[k] # <<>>
    /\ LET m == Head(replyQ[k]) IN
       /\ replyQ' = [replyQ EXCEPT ![k] = Tail(@)]
       /\ fut' = IF Dropped(k, m) THEN fut
                 ELSE [fut EXCEPT ![futures_get(k, m.cid)] = Resolve(@, m)]
       /\ warnings' = IF Dropped(k, m) THEN warnings \cup {m.cid} ELSE warnings
       /\ rpcDeliveries' = rpcDeliveries \cup {RpcDelivery(k, m)}
    /\ UNCHANGED <<clientVars, futures, callPc, callReq, callCid, outcome, generated,
                   cmdDeclared, cmdQ, rpcConsuming, replyDeclared, consuming, deliveries, foreign,
                   eventVars, handlerVars, lastOp>>

(* ------------------------------ command consumer ----------------------- *)

NoError == [type |-> "", text |-> ""]

\* One run of wrapped_callback: the consumer, the delivery tag, the message, the position
\* (pc), the handler's response or exception, the replies it published, and
\* whether the channel the message was delivered on is still open (live).
Delivery(k, i, tag, m, pc, resp, err, sent, live) ==
    [client |-> k, consumer |-> i, tag |-> tag, msg |-> m, pc |-> pc, resp |-> resp,
     err |-> err, sent |-> sent, live |-> live, doneAt |-> 0, ackAt |-> 0]

\* For the record: the run d1 left the try statement as the n-th run of all
\* (doneAt), and left message.process() as the n-th run of all (ackAt).
Completed(d1) ==
    [d1 EXCEPT !.doneAt = Cardinality({x \in deliveries : x.pc # "handler"}) + 1]

Left(d1) ==
    [d1 EXCEPT !.ackAt = Cardinality({x \in deliveries : x.ackAt # 0}) + 1]

\* The messages delivered to consumer i of client k and not yet acknowledged
\* or rejected.
Unacked(k, i) == {d \in InFlight(deliveries, k) : d.consumer = i}

\* A consume() that leaves the channel's prefetch as it is: the consumer is
\* started under the value set last, by connect() or by an earlier consume().
consumer_limit_of_channel(k, prefetch) == qos[k]

\* consume(), lines 219 and 274: set_qos(prefetch_count) precedes
\* queue.consume(), and the broker applies a channel's prefetch to each
\* consumer started after it was set, for as long as the consumer lives.
consumer_limit(k, prefetch) == prefetch

\* consume() without the guard of lines 208-209: on a client that has no
\* channel the first use of self.channel raises AttributeError.
consume_unguarded(k, prefetch) ==
    /\ Len(consuming[k]) < MaxConsumers
    /\ IF channel[k] = "None"
       THEN /\ lastOp' = Op(k, "consume", "AttributeError")
            /\ UNCHANGED <<qos, cmdDeclared, consuming>>
       ELSE IF channel[k] = "closed"
       THEN /\ lastOp' = Op(k, "consume", "ChannelInvalidStateError")
            /\ UNCHANGED <<qos, cmdDeclared, consuming>>
       ELSE /\ cmdDeclared' = TRUE
            /\ qos' = [qos EXCEPT ![k] = prefetch]
            /\ consuming' = [consuming EXCEPT ![k] =
                                Append(@, [given |-> prefetch,
                                           limit |-> consumer_limit(k, prefetch)])]
            /\ lastOp' = Op(k, "consume", "ok")
    /\ UNCHANGED <<connection, channel, callback_queue, setupPc, events_exchange, connPc, closePc,
                   callVars, cmdQ, replyQ, rpcConsuming, replyDeclared, deliveries, foreign, warnings, rpcDeliveries, handlerVars, eventVars>>

\* consume(), lines 208-219 and 274: RuntimeError without a channel; a broker
\* error on a closed channel; otherwise the durable queue is declared, the
\* channel's prefetch is set and the consumer is started.
consume(k, prefetch) ==
    /\ Len(consuming[k]) < MaxConsumers
    /\ IF channel[k] = "None"
       THEN /\ lastOp' = Op(k, "consume", "RuntimeError")
            /\ UNCHANGED <<qos, cmdDeclared, consuming>>
       ELSE IF channel[k] = "closed"
       THEN /\ lastOp' = Op(k, "consume", "ChannelInvalidStateError")
            /\ UNCHANGED <<qos, cmdDeclared, consuming>>
       ELSE /\ cmdDeclared' = TRUE
            /\ qos' = [qos EXCEPT ![k] = prefetch]
            /\ consuming' = [consuming EXCEPT ![k] =
                                Append(@, [given |-> prefetch,
                                           limit |-> consumer_limit(k, prefetch)])]
            /\ lastOp' = Op(k, "consume", "ok")
    /\ UNCHANGED <<connection, channel, callback_queue, setupPc, events_exchange, connPc, closePc,
                   callVars, cmdQ, replyQ, rpcConsuming, replyDeclared, deliveries, foreign, warnings, rpcDeliveries, handlerVars, eventVars>>

\* A reply that does not carry the request's correlation id.
ReplyMessage_without_id(m, payload) == Message(NoCid, "", dumps(payload))

\* A reply that copies the request's reply_to.
ReplyMessage_with_reply_to(m, payload) == Message(m.cid, m.reply_to, dumps(payload))

\* The reply message of lines 239-243 and 265-269: the request's correlation
\* id, no reply_to.
ReplyMessage(m, payload) == Message(m.cid, "", dumps(payload))

\* An except block that ends with `raise`: the exception leaves
\* message.process() after the error reply.
except_block_reraising(d, e) ==
    IF d.msg.reply_to = ""
    THEN [d EXCEPT !.pc = "exit_exc", !.err = e]
    ELSE IF channel[d.client] = "open"
    THEN [d EXCEPT !.pc = "exit_exc", !.err = e,
                   !.sent = Append(@, [to |-> d.msg.reply_to,
                                       msg |-> ReplyMessage(d.msg, error_response(e))])]
    ELSE [d EXCEPT !.pc = "exit_exc", !.err = e]

\* wrapped_callback, lines 251-271: the except block.  The error reply is
\* published when the message has a reply_to; when that publish raises (the
\* channel is closed), the exception leaves message.process().
except_block(d, e) ==
    IF d.msg.reply_to = ""
    THEN [d EXCEPT !.pc = "exit_ok", !.err = e]
    ELSE IF channel[d.client] = "open"
    THEN [d EXCEPT !.pc = "exit_ok", !.err = e,
                   !.sent = Append(@, [to |-> d.msg.reply_to,
                                       msg |-> ReplyMessage(d.msg, error_response(e))])]
    ELSE [d EXCEPT !.pc = "exit_exc", !.err = e]

\* A callback that forgets the reply.
reply_block_dropping(d, r) == [d EXCEPT !.pc = "exit_ok", !.resp = r]

\* A callback that publishes the response whether or not the message has a
\* reply_to.
reply_block_always_publishing(d, r) ==
    IF ~Serializable(r.data)
    THEN except_block([d EXCEPT !.resp = r], TypeErrorExc)
    ELSE IF channel[d.client] # "open"
    THEN except_block([d EXCEPT !.resp = r], ChannelErrorExc)
    ELSE [d EXCEPT !.pc = "exit_ok", !.resp = r,
                   !.sent = Append(@, [to |-> d.msg.reply_to,
                                       msg |-> ReplyMessage(d.msg, r)])]

\* wrapped_callback, lines 236-249: the handler returned r.  The reply is
\* published when the message has a reply_to; json.dumps or the publish may
\* raise, which enters the except block.
reply_block(d, r) ==
    IF d.msg.reply_to = ""
    THEN [d EXCEPT !.pc = "exit_ok", !.resp = r]
    ELSE IF ~Serializable(r.data)
    THEN except_block([d EXCEPT !.resp = r], TypeErrorExc)
    ELSE IF channel[d.client] # "open"
    THEN except_block([d EXCEPT !.resp = r], ChannelErrorExc)
    ELSE [d EXCEPT !.pc = "exit_ok", !.resp = r,
                   !.sent = Append(@, [to |-> d.msg.reply_to,
                                       msg |-> ReplyMessage(d.msg, r)])]

\* The broker routes what a run published since the record `old`.
Publish(old, new) ==
    IF Len(new.sent) > Len(old.sent)
    THEN replyQ' = RouteReply(replyQ, new.sent[Len(new.sent)].to, new.sent[Len(new.sent)].msg)
    ELSE UNCHANGED replyQ

\* A wrapped_callback that hands the body to the handler without decoding it.
deliver_without_decoding(k, i) ==
    /\ i \in 1..Len(consuming[k])
    /\ cmdQ # <<>>
    /\ consuming[k][i].limit = 0 \/ Cardinality(Unacked(k, i)) < consuming[k][i].limit
    /\ LET m == Head(cmdQ)
           d0 == Delivery(k, i, Cardinality(deliveries) + 1, m, "handler", NoValue, NoError,
                          <<>>, TRUE)
       IN /\ deliveries' = deliveries \cup {d0}
          /\ Publish(d0, d0)
    /\ cmdQ' = Tail(cmdQ)
    /\ UNCHANGED <<clientVars, callVars, cmdDeclared, rpcConsuming, replyDeclared, consuming, foreign, warnings, rpcDeliveries, handlerVars, eventVars, lastOp>>

\* The broker delivers the next command to the consumer, within the channel's
\* prefetch; wrapped_callback starts and decodes the body (line 226).  An
\* undecodable body enters the except block at once.
deliver(k, i) ==
    /\ i \in 1..Len(consuming[k])
    /\ cmdQ # <<>>
    /\ consuming[k][i].limit = 0 \/ Cardinality(Unacked(k, i)) < consuming[k][i].limit
    /\ LET m == Head(cmdQ)
           d0 == Delivery(k, i, Cardinality(deliveries) + 1, m, "handler", NoValue, NoError,
                          <<>>, TRUE)
           d1 == IF m.body.valid THEN d0 ELSE Completed(except_block(d0, DecodeErrorExc))
       IN /\ deliveries' = deliveries \cup {d1}
          /\ Publish(d0, d1)
    /\ cmdQ' = Tail(cmdQ)
    /\ UNCHANGED <<clientVars, callVars, cmdDeclared, rpcConsuming, replyDeclared, consuming, foreign, warnings, rpcDeliveries, handlerVars, eventVars, lastOp>>

\* The awaited handler returns r (line 234) and the reply is published.
handler_return(d, r) ==
    /\ d \in deliveries /\ d.pc = "handler"
    /\ LET d1 == Completed(reply_block(d, r))
       IN /\ deliveries' = (deliveries \ {d}) \cup {d1}
          /\ Publish(d, d1)
    /\ UNCHANGED <<clientVars, callVars, cmdDeclared, cmdQ, rpcConsuming, replyDeclared, consuming, foreign, warnings, rpcDeliveries, handlerVars, eventVars, lastOp>>

\* The awaited handler raises e (line 234) and the except block runs.
handler_raise(d, e) ==
    /\ d \in deliveries /\ d.pc = "handler"
    /\ LET d1 == Completed(except_block(d, e))
       IN /\ deliveries' = (deliveries \ {d}) \cup {d1}
          /\ Publish(d, d1)
    /\ UNCHANGED <<clientVars, callVars, cmdDeclared, cmdQ, rpcConsuming, replyDeclared, consuming, foreign, warnings, rpcDeliveries, handlerVars, eventVars, lastOp>>

\* A consumer that acknowledges in the order of delivery: a run leaves
\* message.process() only after the runs of the messages delivered before its
\* own have left.
process_exit_in_delivery_order(d) ==
    /\ d \in deliveries /\ d.pc \in {"exit_ok", "exit_exc"}
    /\ \A x \in deliveries : x.tag < d.tag => x.ackAt # 0
    /\ deliveries' = (deliveries \ {d}) \cup
          {Left([d EXCEPT !.pc = IF ~d.live THEN "unacked"
                                 ELSE IF d.pc = "exit_ok" THEN "acked" ELSE "rejected"])}
    /\ UNCHANGED <<clientVars, callVars, brokerVars, foreign, warnings, rpcDeliveries, handlerVars, eventVars, lastOp>>

\* A consumer that acknowledges whenever it likes, also while the handler
\* runs.
process_exit_at_any_time(d) ==
    /\ d \in deliveries /\ d.pc \in {"handler", "exit_ok", "exit_exc"}
    /\ deliveries' = (deliveries \ {d}) \cup
          {Left([d EXCEPT !.pc = IF ~d.live THEN "unacked"
                                 ELSE IF d.pc = "exit_exc" THEN "rejected" ELSE "acked"])}
    /\ UNCHANGED <<clientVars, callVars, brokerVars, foreign, warnings, rpcDeliveries, handlerVars, eventVars, lastOp>>

\* Leaving message.process(), line 223: ack when the block ended normally,
\* reject (without requeue) when an exception left it.  On a channel that
\* was closed meanwhile neither can be sent: the message stays unacknowledged.
process_exit(d) ==
    /\ d \in deliveries /\ d.pc \in {"exit_ok", "exit_exc"}
    /\ deliveries' = (deliveries \ {d}) \cup
          {Left([d EXCEPT !.pc = IF ~d.live THEN "unacked"
                                 ELSE IF d.pc = "exit_ok" THEN "acked" ELSE "rejected"])}
    /\ UNCHANGED <<clientVars, callVars, brokerVars, foreign, warnings, rpcDeliveries, handlerVars, eventVars, lastOp>>

(* ------------------------------ events -------------------------------- *)

\* Event types, routing keys and binding keys are dot-separated words,
\* written as the sequence of their words: "task.created" is <<"task", "created">>
\* and the empty string is <<>>.
EventTypes == {<<"task", "created">>}

\* routing_key arguments of publish_event: None, the empty string, a key.
NoKey == [given |-> FALSE, key |-> <<>>]
RoutingKeys == {NoKey, [given |-> TRUE, key |-> <<>>],
                [given |-> TRUE, key |-> <<"task", "created", "v2">>]}

\* binding_keys arguments of subscribe_to_events.
BindingKeySets == {{<<"task", "*">>}, {<<"user", "*">>}, {<<"user", "*">>, <<"task", "#">>}}

\* An exchange that routes on the exact key.
EventsExchangeType_direct == "direct"

\* The type the events exchange is declared with (lines 296 and 366).
EventsExchangeType == "topic"

\* Topic matching of the broker: "*" stands for exactly one word, "#" for
\* zero or more words.
RECURSIVE TopicMatch(_, _)
TopicMatch(pattern, key) ==
    IF pattern = <<>> THEN key = <<>>
    ELSE IF Head(pattern) = "#"
    THEN \/ TopicMatch(Tail(pattern), key)
         \/ key # <<>> /\ TopicMatch(pattern, Tail(key))
    ELSE /\ key # <<>>
         /\ Head(pattern) = "*" \/ Head(pattern) = Head(key)
         /\ TopicMatch(Tail(pattern), Tail(key))

\* The exchange routes a message to a queue bound with this key.
Matches(binding_key, key) ==
    IF EventsExchangeType = "topic" THEN TopicMatch(binding_key, key)
    ELSE binding_key = key

\* The queues after the exchange has routed a message: one copy to every
\* queue that has a matching binding, however many of its bindings match.
RouteEvent(q, ev) ==
    [k \in Clients |->
        IF \E b \in bindings[k] : Matches(b, ev.routing_key) THEN Append(q[k], ev) ELSE q[k]]

\* The event message: a number that identifies the publish, the envelope's
\* event_type, the routing key, and whether the body is JSON.
Event(event_type, key, valid) ==
    [seq |-> Len(eventLog) + foreign + 1, event_type |-> event_type,
     routing_key |-> key, valid |-> valid]

\* setup_event_publisher(), lines 290-298.
setup_event_publisher(k) ==
    /\ IF channel[k] = "None"
       THEN /\ lastOp' = Op(k, "setup_event_publisher", "RuntimeError")
            /\ UNCHANGED events_exchange
       ELSE IF channel[k] = "closed"
       THEN /\ lastOp' = Op(k, "setup_event_publisher", "ChannelInvalidStateError")
            /\ UNCHANGED events_exchange
       ELSE /\ events_exchange' = [events_exchange EXCEPT ![k] = "open"]
            /\ lastOp' = Op(k, "setup_event_publisher", "ok")
    /\ UNCHANGED <<connection, channel, callback_queue, setupPc, connPc, closePc, qos,
                   callVars, brokerVars, deliveries, foreign, warnings, rpcDeliveries, handlerVars, eventVars>>

\* A publish that passes the routing_key argument on as it is.
routing_key_or_absent(rk, event_type) == rk.key

\* routing_key or event_type (line 322): None and "" are both falsy.
routing_key_or(rk, event_type) == IF ~rk.given \/ rk.key = <<>> THEN event_type ELSE rk.key

\* publish_event(), lines 319-337.
publish_event(k, event_type, rk) ==
    /\ IF events_exchange[k] = "None"
       THEN /\ lastOp' = Op(k, "publish_event", "RuntimeError")
            /\ UNCHANGED <<eventLog, eventQ>>
       ELSE IF events_exchange[k] = "closed"
       THEN /\ lastOp' = Op(k, "publish_event", "ChannelInvalidStateError")
            /\ UNCHANGED <<eventLog, eventQ>>
       ELSE LET key == routing_key_or(rk, event_type) IN
            /\ eventLog' = Append(eventLog, [event_type |-> event_type, arg |-> rk,
                                             routing_key |-> key])
            /\ eventQ' = RouteEvent(eventQ, Event(event_type, key, TRUE))
            /\ lastOp' = Op(k, "publish_event", "ok")
    /\ UNCHANGED <<clientVars, callVars, brokerVars, deliveries, foreign, warnings, rpcDeliveries, handlerVars, bindings,
                   evConsuming, evDeliveries>>

\* subscribe_to_events(), lines 360-397: the exchange and the queue are
\* declared, the queue is bound with every binding key and consumed.
subscribe_to_events(k, binding_keys) ==
    /\ IF channel[k] = "None"
       THEN /\ lastOp' = Op(k, "subscribe_to_events", "RuntimeError")
            /\ UNCHANGED <<bindings, evConsuming>>
       ELSE IF channel[k] = "closed"
       THEN /\ lastOp' = Op(k, "subscribe_to_events", "ChannelInvalidStateError")
            /\ UNCHANGED <<bindings, evConsuming>>
       ELSE /\ bindings' = [bindings EXCEPT ![k] = @ \cup binding_keys]
            /\ evConsuming' = [evConsuming EXCEPT ![k] = TRUE]
            /\ lastOp' = Op(k, "subscribe_to_events", "ok")
    /\ UNCHANGED <<clientVars, callVars, brokerVars, deliveries, foreign, warnings, rpcDeliveries, handlerVars, eventLog,
                   eventQ, evDeliveries>>

\* An event callback whose exceptions leave message.process().
event_except_block_reraising(d, e) == [d EXCEPT !.pc = "exit_exc", !.err = e]

\* wrapped_callback of subscribe_to_events, lines 389-393: every exception
\* of the decoding or of the handler is logged and swallowed.
event_except_block(d, e) == [d EXCEPT !.pc = "exit_ok", !.err = e]

\* The broker delivers the next event of the subscriber's queue, within the
\* prefetch; wrapped_callback starts and decodes the body (line 384).
event_deliver(k) ==
    /\ evConsuming[k]
    /\ eventQ[k] # <<>>
    /\ Cardinality(evDeliveries) < MaxDeliveries
    /\ qos[k] = 0 \/ Cardinality(InFlight(evDeliveries, k)) < qos[k]
    /\ LET m == Head(eventQ[k])
           d0 == Delivery(k, 1, Cardinality(evDeliveries) + 1, m, "handler", NoValue, NoError,
                          <<>>, TRUE)
       IN evDeliveries' = evDeliveries \cup
                             {IF m.valid THEN d0 ELSE event_except_block(d0, DecodeErrorExc)}
    /\ eventQ' = [eventQ EXCEPT ![k] = Tail(@)]
    /\ UNCHANGED <<clientVars, callVars, brokerVars, deliveries, foreign, warnings, rpcDeliveries, handlerVars, eventLog,
                   bindings, evConsuming, lastOp>>

\* The awaited event handler returns (line 389).
event_handler_return(d) ==
    /\ d \in evDeliveries /\ d.pc = "handler"
    /\ evDeliveries' = (evDeliveries \ {d}) \cup {[d EXCEPT !.pc = "exit_ok"]}
    /\ UNCHANGED <<clientVars, callVars, brokerVars, deliveries, foreign, warnings, rpcDeliveries, handlerVars, eventLog,
                   bindings, eventQ, evConsuming, lastOp>>

\* The awaited event handler raises e (line 389).
event_handler_raise(d, e) ==
    /\ d \in evDeliveries /\ d.pc = "handler"
    /\ evDeliveries' = (evDeliveries \ {d}) \cup {event_except_block(d, e)}
    /\ UNCHANGED <<clientVars, callVars, brokerVars, deliveries, foreign, warnings, rpcDeliveries, handlerVars, eventLog,
                   bindings, eventQ, evConsuming, lastOp>>

\* Leaving message.process(), line 382: ack when the block ended normally,
\* reject when an exception left it; neither on a channel closed meanwhile.
event_process_exit(d) ==
    /\ d \in evDeliveries /\ d.pc \in {"exit_ok", "exit_exc"}
    /\ evDeliveries' = (evDeliveries \ {d}) \cup
          {[d EXCEPT !.pc = IF ~d.live THEN "unacked"
                            ELSE IF d.pc = "exit_ok" THEN "acked" ELSE "rejected"]}
    /\ UNCHANGED <<clientVars, callVars, brokerVars, deliveries, foreign, warnings, rpcDeliveries, handlerVars, eventLog,
                   bindings, eventQ, evConsuming, lastOp>>

(* ------------------------------ create handlers ----------------------- *)

\* The number of create commands the handlers are given.
MaxCreates == 4

\* A key the command's data does not have: data.get() returns None for it.
Missing == "None"

Usernames == {"ann", "bob"}
Emails == {Missing, "a@x", "b@x"}
TagNames == {Missing, "", "red"}

\* The data of a create_user command and of a create_tag command.
UserData == {[username |-> u, key |-> e] : u \in Usernames, e \in Emails}
TagData == {[username |-> Missing, key |-> n] : n \in TagNames}

\* What a handler returns: {"success": ..., "data": ...} or {"success": False,
\* "error": ..., "error_type": ...}; error_type is "" where the key is absent.
CreateResponse(s, row, e, t) == [success |-> s, row |-> row, error |-> e, error_type |-> t]

NoRow == [id |-> 0, username |-> Missing, key |-> Missing]
NoResponse == CreateResponse(FALSE, NoRow, "", "")

\* One run of handle_create_user ("user") or handle_create_tag ("tag"): the
\* command's data, the position in the handler, and what it returned.
CreateRun(n, kind, data, pc, resp) ==
    [id |-> n, kind |-> kind, data |-> data, pc |-> pc, response |-> resp]

\* get_by_email() and get_by_name(): the rows whose email or name equals the
\* argument.  A comparison with NULL selects no row.
get_by_key(kind, key) ==
    IF key = Missing THEN {} ELSE {row \in tables[kind] : row.key = key}

\* A table without unique constraints.
UniqueViolation_unconstrained(kind, data) == FALSE

\* The unique constraints of the tables: "user".username, "user".email and
\* tag.name.
UniqueViolation(kind, data) ==
    \/ \E row \in tables[kind] : row.key = data.key
    \/ kind = "user" /\ \E row \in tables[kind] : row.username = data.username

\* UserRepository.create() and TagRepository.create(): data["email"] raises
\* KeyError when the key is missing; the INSERT raises when tag.name would be
\* NULL or a unique constraint is violated; otherwise the row is inserted
\* and returned.
create_error(kind, data) ==
    IF kind = "user" /\ data.key = Missing THEN "KeyError"
    ELSE IF kind = "tag" /\ data.key = Missing THEN "NotNullViolationError"
    ELSE IF UniqueViolation(kind, data) THEN "UniqueViolationError"
    ELSE ""

\* The message of the early return for a row that exists already.
AlreadyExists(kind) ==
    IF kind = "user" THEN "Email already exists" ELSE "Tag with this name already exists"

\* The handler is called with the data of a command.  handle_create_tag
\* returns at once when the name is missing or empty (lines 35-39).
create_invoke(kind, data) ==
    /\ Cardinality(creates) < MaxCreates
    /\ creates' = creates \cup
          {IF kind = "tag" /\ data.key \in {Missing, ""}
           THEN CreateRun(Cardinality(creates) + 1, kind, data, "done",
                          CreateResponse(FALSE, NoRow, "Tag name is required", ""))
           ELSE CreateRun(Cardinality(creates) + 1, kind, data, "get", NoResponse)}
    /\ UNCHANGED <<clientVars, callVars, brokerVars, deliveries, foreign, warnings,
                   rpcDeliveries, tables, dispatched, eventVars, lastOp>>

\* The awaited get_by_email() or get_by_name() returns: the handler returns
\* the failure when a row was found, and goes on to create() otherwise.
create_get(r) ==
    /\ r \in creates /\ r.pc = "get"
    /\ creates' = (creates \ {r}) \cup
          {IF get_by_key(r.kind, r.data.key) # {}
           THEN [r EXCEPT !.pc = "done",
                          !.response = CreateResponse(FALSE, NoRow, AlreadyExists(r.kind), "")]
           ELSE [r EXCEPT !.pc = "create"]}
    /\ UNCHANGED <<clientVars, callVars, brokerVars, deliveries, foreign, warnings,
                   rpcDeliveries, tables, dispatched, eventVars, lastOp>>

\* The awaited create() returns or raises: the handler returns the row with
\* success true, or the exception as a failure (the except block).
create_insert(r) ==
    /\ r \in creates /\ r.pc = "create"
    /\ LET e == create_error(r.kind, r.data)
           row == [id |-> r.id, username |-> r.data.username, key |-> r.data.key]
       IN IF e # ""
          THEN /\ creates' = (creates \ {r}) \cup
                     {[r EXCEPT !.pc = "done",
                                !.response = CreateResponse(FALSE, NoRow, e, e)]}
               /\ UNCHANGED tables
          ELSE /\ creates' = (creates \ {r}) \cup
                     {[r EXCEPT !.pc = "done",
                                !.response = CreateResponse(TRUE, row, "", "")]}
               /\ tables' = [tables EXCEPT ![r.kind] = @ \cup {row}]
    /\ UNCHANGED <<clientVars, callVars, brokerVars, deliveries, foreign, warnings,
                   rpcDeliveries, dispatched, eventVars, lastOp>>

\* An awaited database call fails for a reason of its own (the connection to
\* the database is lost): the except block returns the failure.
create_db_error(r) ==
    /\ r \in creates /\ r.pc \in {"get", "create"}
    /\ creates' = (creates \ {r}) \cup
          {[r EXCEPT !.pc = "done",
                     !.response = CreateResponse(FALSE, NoRow, "connection is closed",
                                                 "InterfaceError")]}
    /\ UNCHANGED <<clientVars, callVars, brokerVars, deliveries, foreign, warnings,
                   rpcDeliveries, tables, dispatched, eventVars, lastOp>>

(* ------------------------------ command dispatcher --------------------- *)

\* The number of calls of handle_command that are recorded.
MaxDispatches == 2

\* The commands handle_command knows (lines 81-94).
TaskCommands == {"create_task", "get_task", "update_task", "delete_task", "list_tasks"}

\* What json.loads (rabbitmq.py, line 226) may pass to the callback: a dict
\* with one of the commands, with another command or without the key, or a
\* JSON value that is no object.
CommandPayloads ==
    {[type |-> "dict", command |-> c] : c \in TaskCommands \cup {"archive_task", Missing}}
    \cup {[type |-> t, command |-> Missing] : t \in {"list", "str", "null"}}

\* What the awaited task handler does: it returns a mapping, or an exception
\* comes out of the await.
NotAwaited == [kind |-> "none", value |-> NoValue, exc |-> NoError]
TaskHandlerOutcomes ==
    {[kind |-> "return", value |-> r, exc |-> NoError] :
        r \in HandlerResponses \cup {Response(FALSE, NoData, "Task not found", "")}}
    \cup {[kind |-> "raise", value |-> NoValue, exc |-> e] : e \in HandlerErrors}

\* What comes of a call: the mapping returned, or the exception raised to
\* the caller.
Returns(r) == [raised |-> "", response |-> r]
Raises(t) == [raised |-> t, response |-> NoValue]

\* handle_command(), lines 75-110.  payload.get() of lines 75-76 stands
\* before the try statement: on a payload that is no dict it raises
\* AttributeError to the caller.  Inside the try statement the handler of a
\* known command is awaited and its mapping returned, an unknown or missing
\* command gets the UnknownCommand mapping, and any exception becomes an
\* error mapping.
handle_command(payload, h) ==
    IF payload.type # "dict"
    THEN Raises("AttributeError")
    ELSE IF payload.command \in TaskCommands
    THEN IF h.kind = "raise" THEN Returns(error_response(h.exc)) ELSE Returns(h.value)
    ELSE Returns(Response(FALSE, NoData, "Unknown command", "UnknownCommand"))

\* The task handler is awaited only for a dict with a known command.
Awaited(payload) == payload.type = "dict" /\ payload.command \in TaskCommands

\* The callback is called with a payload; the handler, where one is awaited,
\* returns or raises.
dispatch(payload, h) ==
    /\ Cardinality(dispatched) < MaxDispatches
    /\ h = NotAwaited <=> ~Awaited(payload)
    /\ dispatched' = dispatched \cup
          {[payload |-> payload, handler |-> h, result |-> handle_command(payload, h)]}
    /\ UNCHANGED <<clientVars, callVars, brokerVars, deliveries, foreign, warnings,
                   rpcDeliveries, tables, creates, eventVars, lastOp>>

(* ------------------------------ other publishers ----------------------- *)

\* Bodies another publisher may send: a well-formed reply or no JSON at all.
ForeignBodies == {Garbage, dumps(Response(TRUE, [shape |-> "list", v |-> 1], "", ""))}

\* Some other publisher sends a message to the client's reply queue: with no
\* correlation id, or with any id, known to the client or not.
foreign_reply(k, cid, body) ==
    /\ foreign < MaxReplies
    /\ replyDeclared[k]
    /\ foreign' = foreign + 1
    /\ replyQ' = RouteReply(replyQ, k, Message(cid, "", body))
    /\ UNCHANGED <<clientVars, callVars, cmdDeclared, cmdQ, rpcConsuming, replyDeclared, consuming,
                   deliveries, warnings, rpcDeliveries, handlerVars, eventVars, lastOp>>

\* The number of replies a peer may publish to one reply queue when the
\* listener is observed on its own.
MaxListenerReplies == 4

\* A peer publishes a reply to the client's reply queue, as foreign_reply
\* does, up to MaxListenerReplies times.
peer_reply(k, cid, body) ==
    /\ foreign < MaxListenerReplies
    /\ replyDeclared[k]
    /\ foreign' = foreign + 1
    /\ replyQ' = RouteReply(replyQ, k, Message(cid, "", body))
    /\ UNCHANGED <<clientVars, callVars, cmdDeclared, cmdQ, rpcConsuming, replyDeclared, consuming,
                   deliveries, warnings, rpcDeliveries, handlerVars, eventVars, lastOp>>

\* Commands another publisher may send: with or without a correlation id and
\* a reply address, well formed or no JSON at all.
ForeignCommands ==
    {Message(cid, rt, b) : cid \in {NoCid, 1}, rt \in {"", "gw"},
                           b \in {Garbage, dumps([command |-> "get_task",
                                                  data |-> [shape |-> "list", v |-> 1]])}}

\* Some other publisher sends a command to the command queue.
foreign_command(m) ==
    /\ foreign < MaxCommands
    /\ foreign' = foreign + 1
    /\ cmdQ' = RouteCommand(m)
    /\ UNCHANGED <<clientVars, callVars, cmdDeclared, replyQ, rpcConsuming, replyDeclared,
                   consuming, deliveries, warnings, rpcDeliveries, handlerVars, eventVars, lastOp>>

\* Some other publisher sends a message that is no JSON to the events
\* exchange, with the routing key of an event type.
foreign_event(key) ==
    /\ foreign < MaxEvents
    /\ \E k \in Clients : bindings[k] # {}
    /\ foreign' = foreign + 1
    /\ eventQ' = RouteEvent(eventQ, Event(<<>>, key, FALSE))
    /\ UNCHANGED <<clientVars, callVars, brokerVars, deliveries, warnings, rpcDeliveries, handlerVars, eventLog, bindings,
                   evConsuming, evDeliveries, lastOp>>

(* ------------------------------ specifications ------------------------- *)

\* The order in which the bootstrap of a process uses its client: connect()
\* once, then the setup operations, close() at shutdown.
Bootstrapped(k) == channel[k] = "open" /\ connPc[k] = "idle" /\ closePc[k] = "idle"

\* The gateway calls, the service consumes; replies come from the service only.
\* The gateway stays up; the service may shut down at any moment.  Calls are
\* numbered in the order they are made.
Next ==
    \/ \E k \in Clients : connection[k] = "None" /\ connect_connection(k)
    \/ \E k \in Clients : connect_channel(k)
    \/ \E k \in Clients : connect_qos(k)
    \/ close_channel("svc")
    \/ close_connection("svc")
    \/ Bootstrapped("gw") /\ setup_rpc_client("gw")
    \/ setup_rpc_consume("gw")
    \/ \E c \in Calls, p \in Requests :
          /\ callback_queue["gw"] # "None"
          /\ IF c = 1 THEN TRUE ELSE callPc[c - 1] # "idle"
          /\ call_register(c, p)
    \/ \E c \in Calls : call_publish(c)
    \/ \E c \in Calls : call_timeout(c)
    \/ \E c \in Calls : call_return(c)
    \/ on_rpc_response("gw")
    \/ \E n \in PrefetchChoices :
          Bootstrapped("svc") /\ consuming["svc"] = <<>> /\ consume("svc", n)
    \/ \E i \in 1..MaxConsumers : deliver("svc", i)
    \/ \E d \in deliveries, r \in HandlerResponses : handler_return(d, r)
    \/ \E d \in deliveries, e \in HandlerErrors : handler_raise(d, e)
    \/ \E d \in deliveries : process_exit(d)

Spec == Init /\ [][Next]_vars

\* The RPC client alone against an arbitrary peer: whatever is published to
\* its reply queue, by a service or by anyone else, in any order.
NextRpc ==
    \/ connection["gw"] = "None" /\ connect_connection("gw")
    \/ connect_channel("gw")
    \/ connect_qos("gw")
    \/ connect_fail("gw")
    \/ close_channel("gw")
    \/ close_connection("gw")
    \/ Bootstrapped("gw") /\ setup_rpc_client("gw")
    \/ setup_rpc_consume("gw")
    \/ \E c \in Calls, p \in Requests :
          /\ callback_queue["gw"] # "None"
          /\ IF c = 1 THEN TRUE ELSE callPc[c - 1] # "idle"
          /\ call_register(c, p)
    \/ \E c \in Calls : call_publish(c)
    \/ \E c \in Calls : call_timeout(c)
    \/ \E c \in Calls : call_return(c)
    \/ \E c \in Calls : call_cancel(c)
    \/ on_rpc_response("gw")
    \/ \E cid \in Ids \cup {NoCid}, b \in ForeignBodies : foreign_reply("gw", cid, b)

SpecRpc == Init /\ [][NextRpc]_vars

\* The RPC client against an arbitrary peer, with the scheduling of the event
\* loop: a timeout set by wait_for (line 151) expires, a call() whose await
\* is over resumes (lines 152-162), and the awaited publish of lines 135-143
\* returns or raises.  Nothing is assumed of the peer: no reply need ever be
\* published or handled, the command queue need not exist, and close() may
\* run at any moment.
SpecRpcLive ==
    /\ Init /\ [][NextRpc]_vars
    /\ \A c \in Calls : WF_vars(call_publish(c))
    /\ \A c \in Calls : WF_vars(call_timeout(c))
    /\ \A c \in Calls : WF_vars(call_return(c))

\* The reply listener of one client against a peer that publishes any replies
\* in any order: for the correlation id of a call, before or after the call
\* was made or completed, or without one; well formed or no JSON at all.  The
\* client may be closed at any moment.
NextListener ==
    \/ connection["gw"] = "None" /\ connect_connection("gw")
    \/ connect_channel("gw")
    \/ connect_qos("gw")
    \/ close_channel("gw")
    \/ close_connection("gw")
    \/ Bootstrapped("gw") /\ setup_rpc_client("gw")
    \/ setup_rpc_consume("gw")
    \/ \E c \in Calls, p \in Requests :
          /\ callback_queue["gw"] # "None"
          /\ IF c = 1 THEN TRUE ELSE callPc[c - 1] # "idle"
          /\ call_register(c, p)
    \/ \E c \in Calls : call_publish(c)
    \/ \E c \in Calls : call_timeout(c)
    \/ \E c \in Calls : call_return(c)
    \/ on_rpc_response("gw")
    \/ \E cid \in Calls \cup {NoCid}, b \in ForeignBodies : peer_reply("gw", cid, b)

SpecListener == Init /\ [][NextListener]_vars

\* The create handlers of the users service and of the tags service, each
\* awaited by a consumer with a prefetch above one: any number of runs up to
\* MaxCreates are in progress together, and each awaited database call is a
\* step of its own.
NextCreate ==
    \/ \E data \in UserData : create_invoke("user", data)
    \/ \E data \in TagData : create_invoke("tag", data)
    \/ \E r \in creates : create_get(r)
    \/ \E r \in creates : create_insert(r)
    \/ \E r \in creates : create_db_error(r)

SpecCreate == Init /\ [][NextCreate]_vars

\* The dispatcher of the tasks service, called with any payload the consumer
\* may decode and with any behaviour of the task handler.
NextDispatch ==
    \E payload \in CommandPayloads, h \in TaskHandlerOutcomes \cup {NotAwaited} :
        dispatch(payload, h)

SpecDispatch == Init /\ [][NextDispatch]_vars

\* The consumer alone against an arbitrary publisher of commands; the service
\* may call consume() again with another prefetch and may shut down at any
\* moment.
NextConsumer ==
    \/ connection["svc"] = "None" /\ connect_connection("svc")
    \/ connect_channel("svc")
    \/ connect_qos("svc")
    \/ close_channel("svc")
    \/ close_connection("svc")
    \/ \E n \in PrefetchChoices : Bootstrapped("svc") /\ consume("svc", n)
    \/ \E m \in ForeignCommands : foreign_command(m)
    \/ \E i \in 1..MaxConsumers : deliver("svc", i)
    \/ \E d \in deliveries, r \in HandlerResponses : handler_return(d, r)
    \/ \E d \in deliveries, e \in HandlerErrors : handler_raise(d, e)
    \/ \E d \in deliveries : process_exit(d)

SpecConsumer == Init /\ [][NextConsumer]_vars

\* The consumer with any callback: the mappings the handlers of the services
\* return for success and for failure, and mappings of other shapes.
NextReplies ==
    \/ connection["svc"] = "None" /\ connect_connection("svc")
    \/ connect_channel("svc")
    \/ connect_qos("svc")
    \/ \E n \in PrefetchChoices :
          Bootstrapped("svc") /\ consuming["svc"] = <<>> /\ consume("svc", n)
    \/ \E m \in ForeignCommands : foreign_command(m)
    \/ \E i \in 1..MaxConsumers : deliver("svc", i)
    \/ \E d \in deliveries, r \in HandlerResponses \cup HandlerFailures \cup OtherMappings :
          handler_return(d, r)
    \/ \E d \in deliveries, e \in HandlerErrors : handler_raise(d, e)
    \/ \E d \in deliveries : process_exit(d)

SpecReplies == Init /\ [][NextReplies]_vars

\* Two RPC clients side by side: the gateway and the service each set up
\* their reply queue and call; the service also consumes the command queue
\* and answers the requests of both.
PairCalls == {1} \cup PeerCalls

NextPair ==
    \/ \E k \in Clients : connection[k] = "None" /\ connect_connection(k)
    \/ \E k \in Clients : connect_channel(k)
    \/ \E k \in Clients : connect_qos(k)
    \/ \E k \in Clients : Bootstrapped(k) /\ setup_rpc_client(k)
    \/ \E k \in Clients : setup_rpc_consume(k)
    \/ \E c \in PairCalls, p \in Requests :
          callback_queue[ClientOf(c)] # "None" /\ call_register(c, p)
    \/ \E c \in PairCalls : call_publish(c)
    \/ \E c \in PairCalls : call_timeout(c)
    \/ \E c \in PairCalls : call_return(c)
    \/ \E k \in Clients : on_rpc_response(k)
    \/ \E n \in PrefetchChoices :
          Bootstrapped("svc") /\ consuming["svc"] = <<>> /\ consume("svc", n)
    \/ \E i \in 1..MaxConsumers : deliver("svc", i)
    \/ \E d \in deliveries, r \in HandlerResponses : handler_return(d, r)
    \/ \E d \in deliveries, e \in HandlerErrors : handler_raise(d, e)
    \/ \E d \in deliveries : process_exit(d)

SpecPair == Init /\ [][NextPair]_vars

\* The binding keys the one client subscribes with.
ApiBindingKeys == {<<"task", "*">>}

\* One client used in every way its API allows, in any lifecycle state: any
\* operation at any moment, connect() again after close(), one call(), against
\* a peer that never answers.
NextApi ==
    \/ connect_connection("gw")
    \/ connect_channel("gw")
    \/ connect_qos("gw")
    \/ connect_fail("gw")
    \/ close_channel("gw")
    \/ close_connection("gw")
    \/ close_channel_fail("gw")
    \/ close_connection_fail("gw")
    \/ setup_rpc_client("gw")
    \/ setup_rpc_consume("gw")
    \/ \E p \in Requests : call_register(1, p)
    \/ call_publish(1)
    \/ call_timeout(1)
    \/ call_return(1)
    \/ \E n \in PrefetchChoices : consuming["gw"] = <<>> /\ consume("gw", n)
    \/ setup_event_publisher("gw")
    \/ \E t \in EventTypes, rk \in RoutingKeys :
          Len(eventLog) < MaxEvents /\ publish_event("gw", t, rk)
    \/ subscribe_to_events("gw", ApiBindingKeys)

SpecApi == Init /\ [][NextApi]_vars

\* The service publishes events; the gateway and the service subscribe, each
\* once per connection and with the same keys every time.  The gateway may shut down at any moment and connect
\* again; other publishers may use the exchange.
NextEvents ==
    \/ connection["svc"] = "None" /\ connect_connection("svc")
    \/ connect_connection("gw")
    \/ \E k \in Clients : connect_channel(k)
    \/ \E k \in Clients : connect_qos(k)
    \/ close_channel("gw")
    \/ close_connection("gw")
    \/ Bootstrapped("svc") /\ events_exchange["svc"] = "None" /\ setup_event_publisher("svc")
    \/ \E t \in EventTypes, rk \in RoutingKeys :
          Len(eventLog) < MaxEvents /\ publish_event("svc", t, rk)
    \/ \E k \in Clients, b \in BindingKeySets :
          /\ Bootstrapped(k) /\ ~evConsuming[k]
          /\ bindings[k] \in {{}, b}
          /\ subscribe_to_events(k, b)
    \/ \E t \in EventTypes : foreign_event(t)
    \/ \E k \in Clients : event_deliver(k)
    \/ \E d \in evDeliveries : event_handler_return(d)
    \/ \E d \in evDeliveries, e \in HandlerErrors : event_handler_raise(d, e)
    \/ \E d \in evDeliveries : event_process_exit(d)

SpecEvents == Init /\ [][NextEvents]_vars

(* ------------------------------ properties ----------------------------- *)

\* A call() that registered its Future and has not left through the finally
\* block yet.
Outstanding(c) == callPc[c] \in {"publish", "wait", "timedout"}

\* C1: a pending call is resolved at most once.  Once the Future of a call is
\* completed (result, decoding error or cancellation) no later step changes
\* it, what the call returned or raised never changes afterwards, and a value
\* the call returns is the result its Future was completed with.
C1_ResolvedAtMostOnce ==
    [][\A c \in Calls :
          /\ Done(fut[c]) => fut'[c] = fut[c]
          /\ outcome[c] # NoOutcome => outcome'[c] = outcome[c]
          /\ outcome'[c].kind = "return" =>
                fut'[c].state = "result" /\ outcome'[c].value = fut'[c].value]_vars

\* A call returned a value and a further reply with its correlation id was
\* dropped by the listener.
C1_DuplicateDropped ==
    \E c \in Calls : /\ outcome[c].kind = "return"
                     /\ fut[c].state = "result"
                     /\ callCid[c] \in warnings

\* C2: whatever the order of the replies, the Future of a call is completed
\* only by a reply that carries the correlation id this call generated, and
\* the call returns the body of that reply.
C2_OwnReplyOnly ==
    \A c \in Calls :
        /\ fut[c].state \in {"result", "exception"} => fut[c].src = callCid[c]
        /\ outcome[c].kind = "return" =>
              /\ fut[c].state = "result"
              /\ fut[c].src = callCid[c]
              /\ outcome[c].value = fut[c].value

\* Two calls were outstanding together and the second one made got and
\* returned its reply while the first is still waiting for its own.
C2_RepliesOutOfOrder ==
    /\ outcome[2].kind = "return"
    /\ callPc[1] = "wait" /\ fut[1].state = "pending"
    /\ callCid[1] # callCid[2]

\* C3: a call whose timeout expires with the Future still pending raises
\* TimeoutError (its Future was cancelled, and not by a cancellation of the
\* caller); a call that has completed has no entry in self.futures; when
\* every call has completed the table is empty.
C3_TimeoutRemovesEntry ==
    /\ \A c \in Calls :
          callPc[c] = "done" =>
             /\ callCid[c] \notin DOMAIN futures[ClientOf(c)]
             /\ (fut[c].state = "cancelled" /\ outcome[c].kind # "CancelledError")
                   => outcome[c].kind = "TimeoutError"
    /\ (\A c \in Calls : callPc[c] = "done") => futures["gw"] = EmptyMap

\* Every call timed out and the table is empty again.
C3_AllTimedOut ==
    /\ \A c \in Calls : /\ callPc[c] = "done"
                        /\ fut[c].state = "cancelled"
                        /\ outcome[c].kind = "TimeoutError"
    /\ futures["gw"] = EmptyMap

\* The reply at the head of the reply queue has no correlation id or one that
\* is not in self.futures.
UnmatchedHead(k) ==
    /\ replyQ[k] # <<>>
    /\ \/ Head(replyQ[k]).cid = NoCid
       \/ Head(replyQ[k]).cid \notin DOMAIN futures[k]

\* C4: when the listener handles a reply that has no correlation id, or one
\* that matches no entry of self.futures, the table, the Future of every call
\* and the position and result of every call stay as they are, and the drop
\* is logged.
C4_UnmatchedReplyDropped ==
    [][(/\ rpcConsuming["gw"] /\ rpcConsuming'["gw"]
        /\ UnmatchedHead("gw")
        /\ replyQ'["gw"] = Tail(replyQ["gw"]))
       => /\ UNCHANGED <<futures, fut, callPc, outcome>>
          /\ Head(replyQ["gw"]).cid \in warnings']_vars

\* A reply with an id no call generated, or with none, was dropped while two
\* calls are outstanding, both still pending.
C4_DroppedWhileTwoOutstanding ==
    /\ (warnings \ {callCid[c] : c \in Calls}) # {}
    /\ \A c \in Calls : /\ callPc[c] = "wait"
                        /\ fut[c].state = "pending"
                        /\ callCid[c] \in DOMAIN futures["gw"]

\* The handler of this run raised.
Raised(d) == d.err \in HandlerErrors

\* The run is over: the message was acknowledged, rejected, or left
\* unacknowledged on a closed channel.
Finished(d) == d.pc \in {"acked", "rejected", "unacked"}

\* The error reply of a run whose handler raised: to the request's reply_to,
\* with the request's correlation id.
ErrorReply(d) ==
    [to |-> d.msg.reply_to,
     msg |-> Message(d.msg.cid, "",
                     [valid |-> TRUE,
                      doc |-> Response(FALSE, [shape |-> "null", v |-> 0],
                                       d.err.text, d.err.type)])]

\* C5 as the specification states it: when the handler raised, the message is
\* acknowledged and, if it has a reply_to, exactly one error reply with the
\* request's correlation id was published.
C5_AlwaysAckedAndReplied ==
    \A d \in deliveries :
        (Raised(d) /\ Finished(d)) =>
            /\ d.pc = "acked"
            /\ d.msg.reply_to # "" => d.sent = <<ErrorReply(d)>>

\* C5: when the handler raised, at most one reply is published and it is the
\* error reply with the request's correlation id.  As long as the consumer's
\* channel is open, that reply is published (for a message with a reply_to)
\* and the message is then acknowledged; when the channel was closed
\* meanwhile, the message is left unacknowledged, and it is never rejected.
C5_ErrorReplyWhileChannelOpen ==
    \A d \in deliveries :
        Raised(d) =>
            /\ Len(d.sent) <= 1
            /\ \A i \in 1..Len(d.sent) : d.sent[i] = ErrorReply(d)
            /\ (d.live /\ d.msg.reply_to # "") => d.sent = <<ErrorReply(d)>>
            /\ d.live => d.pc \in {"exit_ok", "acked"}
            /\ (d.pc = "acked" /\ d.msg.reply_to # "") => d.sent = <<ErrorReply(d)>>
            /\ Finished(d) => (d.pc = "acked" \/ (d.pc = "unacked" /\ ~d.live))

\* A handler raised, the error reply was published and the message acknowledged.
C5_RaisedRepliedAcked ==
    \E d \in deliveries : /\ Raised(d)
                          /\ d.pc = "acked"
                          /\ d.msg.reply_to = "gw"
                          /\ d.sent = <<ErrorReply(d)>>

\* The run d serves the request of call c.
Served(c, d) == callCid[c] # NoCid /\ d.msg.cid = callCid[c]

\* The call got its answer: it completed, and not by its timeout.
Answered(c) == callPc[c] = "done" /\ outcome[c].kind # "TimeoutError"

\* C6 as the specification states it: when the handler returned r, the call
\* returns a mapping equal to r.
C6_ReturnsExactMapping ==
    \A c \in Calls, d \in deliveries :
        (Served(c, d) /\ d.resp \in HandlerResponses /\ Answered(c))
            => outcome[c] = Outcome("return", d.resp)

\* What the caller gets for a mapping r the handler returned: r itself when
\* its values are JSON values, r with the tuple turned into a list, or the
\* error reply for the TypeError of json.dumps.
Expected(r) ==
    IF r.data.shape = "list" THEN r
    ELSE IF r.data.shape = "tuple" THEN [r EXCEPT !.data = [shape |-> "list", v |-> @.v]]
    ELSE Response(FALSE, NoData, "not JSON serializable", "TypeError")

\* C6: when the handler returned r and the call completes before its
\* timeout, the call does not raise and returns r decoded from its JSON
\* encoding: equal to r when r holds JSON values only, with tuples turned
\* into lists otherwise, and the error reply {success: false, error,
\* error_type: "TypeError"} when r cannot be encoded.
C6_ReturnsJsonImage ==
    \A c \in Calls, d \in deliveries :
        (Served(c, d) /\ d.resp \in HandlerResponses /\ Answered(c))
            => outcome[c] = Outcome("return", Expected(d.resp))

\* A handler returned a mapping holding a tuple and the call returned it with
\* a list in its place.
C6_TupleCameBackAsList ==
    \E c \in Calls, d \in deliveries :
        /\ Served(c, d) /\ d.resp \in HandlerResponses
        /\ d.resp.data.shape = "tuple"
        /\ outcome[c].kind = "return"
        /\ outcome[c].value.data.shape = "list"
        /\ outcome[c].value # d.resp

\* C7: when the handler raised while serving the request of a call, that
\* call, if it completes before its timeout, does not raise: it returns the
\* mapping {success: false, error: str(e), error_type: the exception's type}.
C7_RemoteFailureIsAValue ==
    \A c \in Calls, d \in deliveries :
        (Served(c, d) /\ Raised(d) /\ Answered(c))
            => outcome[c] = Outcome("return", Response(FALSE, NoData, d.err.text, d.err.type))

\* A handler raised and the call returned the error mapping.
C7_ErrorMappingReturned ==
    \E c \in Calls, d \in deliveries :
        /\ Served(c, d) /\ Raised(d)
        /\ outcome[c].kind = "return"
        /\ ~outcome[c].value.success
        /\ outcome[c].value.error_type = "ValueError"

\* C8 as the specification states it: once the channel is closed no call is
\* left pending and the table is empty.
C8_CloseFailsPending ==
    channel["gw"] = "closed" =>
        /\ futures["gw"] = EmptyMap
        /\ \A c \in Calls : fut[c].state # "pending"

\* C8: close() leaves the pending calls alone: the step that closes the
\* channel changes neither self.futures nor any Future nor any call, and on a
\* closed channel a pending Future is completed by nothing but the
\* cancellation of its own timeout.
C8_CloseLeavesPending ==
    [][/\ (channel["gw"] = "open" /\ channel'["gw"] = "closed")
            => UNCHANGED <<futures, fut, callPc, outcome>>
       /\ \A c \in Calls :
            (channel["gw"] = "closed" /\ fut[c].state = "pending" /\ fut'[c] # fut[c])
                => fut'[c].state = "cancelled"]_vars

\* The channel is closed and a call is still waiting, its Future pending and
\* its entry in the table.
C8_PendingAfterClose ==
    /\ channel["gw"] = "closed"
    /\ \E c \in Calls : /\ callPc[c] = "wait"
                        /\ fut[c].state = "pending"
                        /\ callCid[c] \in DOMAIN futures["gw"]

\* connect() has returned and close() has not been called.
Connected(k) ==
    /\ connection[k] = "open" /\ channel[k] = "open"
    /\ connPc[k] = "idle" /\ closePc[k] = "idle"

\* The step completes one of consume, publish_event, subscribe_to_events.
Completes(ops) == lastOp' # lastOp /\ lastOp'.op \in ops

\* C9 as the specification states it: outside Connected each of call,
\* consume, publish_event and subscribe_to_events fails with RuntimeError and
\* publishes nothing.
C9_ConfigurationErrorUnlessConnected ==
    [][~Connected("gw") =>
          /\ Completes({"consume", "publish_event", "subscribe_to_events"})
                => (lastOp'.result = "RuntimeError" /\ UNCHANGED <<brokerVars, eventVars>>)
          /\ (callPc[1] = "idle" /\ callPc'[1] # "idle")
                => (outcome'[1].kind = "RuntimeError" /\ UNCHANGED <<brokerVars, eventVars>>)]_vars

\* C9: each operation checks only the field it uses.  consume and
\* subscribe_to_events raise RuntimeError while self.channel is None,
\* publish_event while self.events_exchange is None, call while
\* self.callback_queue is None, and then nothing is declared, published or
\* registered.  After close() the fields are still set: the operation fails
\* with the library's channel error and nothing is published; call has by
\* then registered its Future and removes it again.  An operation succeeds
\* only on an open channel.
C9_GuardedByField ==
    [][/\ Completes({"consume", "subscribe_to_events"}) =>
            /\ channel["gw"] = "None" => lastOp'.result = "RuntimeError"
            /\ channel["gw"] = "closed" => lastOp'.result = "ChannelInvalidStateError"
            /\ channel["gw"] = "open" => lastOp'.result = "ok"
       /\ Completes({"publish_event"}) =>
            /\ events_exchange["gw"] = "None" => lastOp'.result = "RuntimeError"
            /\ events_exchange["gw"] = "closed" => lastOp'.result = "ChannelInvalidStateError"
            /\ events_exchange["gw"] = "open" => lastOp'.result = "ok"
       /\ (Completes({"consume", "publish_event", "subscribe_to_events"})
             /\ lastOp'.result # "ok") => UNCHANGED <<brokerVars, eventVars>>
       /\ (callPc[1] = "idle" /\ callPc'[1] # "idle") =>
            /\ UNCHANGED <<brokerVars, eventVars>>
            /\ IF callback_queue["gw"] = "None"
               THEN outcome'[1].kind = "RuntimeError" /\ UNCHANGED futures
               ELSE callPc'[1] = "publish" /\ callCid'[1] \in DOMAIN futures'["gw"]
       /\ (callPc[1] = "publish" /\ callPc'[1] # "publish" /\ channel["gw"] # "open") =>
            /\ outcome'[1].kind \in {"ChannelInvalidStateError", "TypeError"}
            /\ callCid[1] \notin DOMAIN futures'["gw"]
            /\ UNCHANGED <<brokerVars, eventVars>>]_vars

\* consume() was called after close() and failed with the channel error, not
\* with RuntimeError.
C9_ChannelErrorAfterClose ==
    /\ lastOp.op = "consume"
    /\ lastOp.result = "ChannelInvalidStateError"
    /\ channel["gw"] = "closed"
    /\ ~Connected("gw")

\* C10: every outstanding call owns the entry of self.futures under its
\* correlation id, and two calls outstanding together have different ids:
\* registering a call never overwrites the entry of another one.
C10_DistinctOutstandingIds ==
    \A c1, c2 \in Calls :
        /\ Outstanding(c1) =>
              /\ callCid[c1] \in DOMAIN futures["gw"]
              /\ futures["gw"][callCid[c1]] = c1
        /\ (c1 # c2 /\ Outstanding(c1) /\ Outstanding(c2)) => callCid[c1] # callCid[c2]

\* Two calls are outstanding together, each with its own entry.
C10_TwoOutstanding ==
    /\ Outstanding(1) /\ Outstanding(2)
    /\ Cardinality(DOMAIN futures["gw"]) = 2

\* The step in which call 1 starts: the guard and, past it, the registration.
CallStarts == callPc[1] = "idle" /\ callPc'[1] # "idle"

\* C11 as the specification states it: as long as setup_rpc_client() has not
\* completed (it was not called, or it has declared the queue and not yet
\* started the listener), call() fails with RuntimeError, registers nothing
\* and publishes nothing.
C11_FailsUntilSetupCompleted ==
    [][(CallStarts /\ (callback_queue["gw"] = "None" \/ setupPc["gw"] = "l101"))
         => /\ outcome'[1].kind = "RuntimeError"
            /\ UNCHANGED <<futures, cmdQ>>]_vars

\* C11: call() on a client whose setup_rpc_client() has not yet set
\* self.callback_queue raises RuntimeError at once: it generates no id,
\* registers no Future and publishes nothing.  Once the reply queue is
\* declared, also before the listener is started, call() passes the guard and
\* registers its Future.
C11_FailsWithoutCallbackQueue ==
    [][CallStarts =>
          IF callback_queue["gw"] = "None"
          THEN /\ callPc'[1] = "done"
               /\ outcome'[1].kind = "RuntimeError"
               /\ UNCHANGED <<futures, fut, generated, callCid, brokerVars>>
          ELSE /\ callPc'[1] = "publish"
               /\ outcome'[1] = NoOutcome
               /\ callCid'[1] \in DOMAIN futures'["gw"]]_vars

\* call() was made on a connected client without setup_rpc_client() and
\* failed with RuntimeError; nothing is registered or published.
C11_RuntimeErrorOnConnectedClient ==
    /\ outcome[1].kind = "RuntimeError"
    /\ channel["gw"] = "open" /\ callback_queue["gw"] = "None"
    /\ futures["gw"] = EmptyMap /\ cmdQ = <<>> /\ generated = {}

\* The listener of client k handles the reply at the head of its reply queue.
ListenerStep(k) ==
    /\ rpcConsuming[k] /\ rpcConsuming'[k]
    /\ replyQ[k] # <<>>
    /\ replyQ'[k] = Tail(replyQ[k])

\* The reply at the head of the reply queue carries the id of call c, whose
\* Future is registered and pending.
MatchingHead(k, c) ==
    /\ replyQ[k] # <<>>
    /\ Head(replyQ[k]).cid = callCid[c]
    /\ callCid[c] \in DOMAIN futures[k]
    /\ fut[c].state = "pending"

\* C12: when the listener handles an undecodable reply that matches a pending
\* call, the Future of that call is completed with the decoding error in that
\* step, and the call, resuming before its timeout fires and before its
\* caller cancels it, raises that error.
C12_DecodeFailureCompletesCall ==
    [][\A c \in Calls :
          /\ (ListenerStep("gw") /\ MatchingHead("gw", c) /\ ~Head(replyQ["gw"]).body.valid)
                => (fut'[c].state = "exception" /\ fut'[c].src = callCid[c])
          /\ (callPc[c] = "wait" /\ fut[c].state = "exception" /\ callPc'[c] = "done"
                /\ outcome'[c].kind # "CancelledError")
                => outcome'[c].kind = "JSONDecodeError"]_vars

\* A call raised the decoding error of its reply.
C12_CallRaisedDecodeError ==
    \E c \in Calls : /\ outcome[c].kind = "JSONDecodeError"
                     /\ fut[c].state = "exception"
                     /\ fut[c].src = callCid[c]

\* Call c has timed out: its timer fired, or it has already raised
\* TimeoutError and removed its entry.
TimedOut(c) ==
    \/ callPc[c] = "timedout"
    \/ callPc[c] = "done" /\ outcome[c].kind = "TimeoutError"

\* C13: when the listener handles a reply that carries the id of a call that
\* has timed out, the reply is dropped and logged: no Future and no call
\* changes, and self.futures gets no entry.
C13_LateReplyDropped ==
    [][\A c \in Calls :
          (ListenerStep("gw") /\ TimedOut(c) /\ Head(replyQ["gw"]).cid = callCid[c])
             => /\ UNCHANGED <<futures, fut, callPc, outcome>>
                /\ callCid[c] \in warnings']_vars

\* A call timed out, raised TimeoutError, and a reply with its id was dropped
\* afterwards while another call is still waiting, pending.
C13_DroppedAfterTimeout ==
    \E c, o \in Calls :
        /\ c # o
        /\ callPc[c] = "done" /\ outcome[c].kind = "TimeoutError"
        /\ fut[c].state = "cancelled"
        /\ callCid[c] \in warnings
        /\ callPc[o] = "wait" /\ fut[o].state = "pending"

\* C14 as the specification states it: every run of wrapped_callback ends
\* with the message acknowledged.
C14_AlwaysAcked ==
    \A d \in deliveries : Finished(d) => d.pc = "acked"

\* C14: as long as the consumer's channel is open, no exception leaves
\* message.process() and the message is acknowledged, whatever the handler
\* did and whether or not the body could be decoded or the response encoded.
\* An exception leaves message.process() only when the channel was closed
\* (the publish of the reply and of the error reply raise); the message is
\* then neither acknowledged nor rejected: it stays unacknowledged.
C14_AckedWhileChannelOpen ==
    \A d \in deliveries :
        /\ d.live => d.pc \in {"handler", "exit_ok", "acked"}
        /\ d.pc = "exit_exc" => (~d.live /\ d.msg.reply_to # "" /\ d.sent = <<>>)
        /\ Finished(d) => (d.pc = "acked" \/ (d.pc = "unacked" /\ ~d.live))

\* A message with an undecodable body and a message whose response could not
\* be encoded were both acknowledged.
C14_FailuresAcked ==
    \E d1, d2 \in deliveries :
        /\ d1.pc = "acked" /\ d1.err = DecodeErrorExc
        /\ d2.pc = "acked" /\ d2.err = TypeErrorExc

\* The handler of this run returned a response, for a message that has a
\* reply address.
Returned(d) == d.resp \in HandlerResponses /\ d.msg.reply_to # ""

\* The reply that carries payload r for the request of run d.
ReplyWith(d, r) ==
    [to |-> d.msg.reply_to,
     msg |-> Message(d.msg.cid, "",
                     [valid |-> TRUE, doc |-> [r EXCEPT !.data = JsonOfData(r.data)]])]

\* C15 as the specification states it: when the handler returned r, the one
\* reply published carries r and the request's correlation id.
C15_ResponseAlwaysPublished ==
    \A d \in deliveries :
        (Returned(d) /\ d.pc # "handler") => d.sent = <<ReplyWith(d, d.resp)>>

\* C15: when the handler returned r for a message with a reply address, at
\* most one reply is published, with the request's correlation id.  When r can
\* be encoded, it is the encoding of r; when json.dumps(r) raises, it is the
\* error reply for that TypeError instead.  The reply is published whenever
\* the consumer's channel is open; on a closed channel none is.
C15_ResponseOrEncodingError ==
    \A d \in deliveries :
        (Returned(d) /\ d.pc # "handler") =>
            LET reply == IF Serializable(d.resp.data) THEN ReplyWith(d, d.resp)
                         ELSE ReplyWith(d, Response(FALSE, NoData, "not JSON serializable",
                                                    "TypeError"))
            IN /\ d.sent \in {<<>>, <<reply>>}
               /\ d.live => d.sent = <<reply>>
               /\ d.pc = "acked" => d.sent = <<reply>>

\* A handler's response was published as the reply, with the request's id.
C15_ResponsePublished ==
    \E d \in deliveries :
        /\ Returned(d) /\ Serializable(d.resp.data)
        /\ d.msg.cid # NoCid
        /\ d.sent = <<ReplyWith(d, d.resp)>>
        /\ d.pc = "acked"

\* The requests published so far that are still in the command queue or were
\* delivered.
RequestsPublished == {cmdQ[i] : i \in 1..Len(cmdQ)} \cup {d.msg : d \in deliveries}

\* C16: every reply a consumer publishes, for a response or for an error,
\* carries the correlation id of the request, has no reply_to and goes to the
\* request's reply address; every request call() publishes carries the id the
\* call generated and the calling client's reply queue as reply_to.
C16_EnvelopeFields ==
    /\ \A d \in deliveries : \A i \in 1..Len(d.sent) :
          /\ d.sent[i].msg.cid = d.msg.cid
          /\ d.sent[i].msg.reply_to = ""
          /\ d.sent[i].to = d.msg.reply_to
    /\ \A i \in 1..Len(replyQ["gw"]) :
          /\ replyQ["gw"][i].reply_to = ""
          /\ \E c \in Calls : callCid[c] = replyQ["gw"][i].cid
    /\ \A m \in RequestsPublished :
          /\ m.cid # NoCid
          /\ \E c \in Calls : callCid[c] = m.cid /\ m.reply_to = ClientOf(c)

\* A response and an error reply were both published.
C16_BothKindsPublished ==
    \E d1, d2 \in deliveries :
        /\ d1.resp \in HandlerResponses /\ Len(d1.sent) = 1 /\ d1.sent[1].msg.body.doc.success
        /\ Raised(d2) /\ Len(d2.sent) = 1 /\ ~d2.sent[1].msg.body.doc.success

TaskCreated == <<"task", "created">>
TaskCreatedV2 == <<"task", "created", "v2">>
TaskStar == <<"task", "*">>
TaskHash == <<"task", "#">>
UserStar == <<"user", "*">>

\* This step is a publish_event() that published.
Published == Len(eventLog') = Len(eventLog) + 1

\* The event published last.
LastEvent == eventLog[Len(eventLog)]

\* In this step the queue of subscriber k received one more message, with
\* routing key `key`, behind the messages it held.
Received(k, key) ==
    /\ Len(eventQ'[k]) = Len(eventQ[k]) + 1
    /\ SubSeq(eventQ'[k], 1, Len(eventQ[k])) = eventQ[k]
    /\ eventQ'[k][Len(eventQ'[k])].routing_key = key

\* C17: when an event of type task.created is published with no routing
\* key, the queue of every subscriber bound with task.* receives exactly one
\* message, which is that event, and the queue of a subscriber bound only
\* with user.* receives nothing; such a subscriber is never delivered anything.
C17_TaskCreatedRouted ==
    /\ [](\A d \in evDeliveries : bindings[d.client] # {UserStar})
    /\ [][(Published /\ LastEvent'.event_type = TaskCreated /\ LastEvent'.arg = NoKey) =>
            \A k \in Clients :
               /\ TaskStar \in bindings[k] =>
                     /\ Received(k, TaskCreated)
                     /\ eventQ'[k][Len(eventQ'[k])].event_type = TaskCreated
                     /\ eventQ'[k][Len(eventQ'[k])].valid
               /\ bindings[k] = {UserStar} => eventQ'[k] = eventQ[k]]_vars

\* task.created was published with no routing key while the gateway was
\* bound with task.* and the service only with user.*; the gateway's queue
\* holds it, the service's queue is empty.
C17_OneCopyForTaskStar ==
    /\ lastOp.op = "publish_event" /\ lastOp.result = "ok"
    /\ Len(eventLog) = 1 /\ LastEvent.arg = NoKey /\ LastEvent.event_type = TaskCreated
    /\ bindings["gw"] = {TaskStar} /\ bindings["svc"] = {UserStar}
    /\ Len(eventQ["gw"]) = 1 /\ eventQ["gw"][1].event_type = TaskCreated
    /\ eventQ["svc"] = <<>>

\* A pattern without "#" matches the keys of its length whose every word is
\* the pattern's word or stands under a "*".
SegmentMatch(pattern, key) ==
    /\ Len(pattern) = Len(key)
    /\ \A i \in 1..Len(pattern) : pattern[i] = "*" \/ pattern[i] = key[i]

\* Topic matching as the specification words it: "*" is exactly one segment,
\* a trailing "#" is zero or more segments.
PatternMatches(pattern, key) ==
    IF pattern # <<>> /\ pattern[Len(pattern)] = "#"
    THEN /\ Len(key) >= Len(pattern) - 1
         /\ SegmentMatch(SubSeq(pattern, 1, Len(pattern) - 1), SubSeq(key, 1, Len(pattern) - 1))
    ELSE SegmentMatch(pattern, key)

\* C18: on every publish, a subscriber's queue receives the event if and only
\* if at least one of its binding patterns matches the routing key, where "*"
\* matches exactly one segment and a trailing "#" zero or more: a subscriber
\* bound with task.# receives task.created and task.created.v2, one bound
\* with task.* receives task.created, and one bound only with task.* does not
\* receive task.created.v2.
C18_TopicMatching ==
    [][Published =>
        LET key == LastEvent'.routing_key IN
        \A k \in Clients :
           /\ IF \E b \in bindings[k] : PatternMatches(b, key)
              THEN Received(k, key) ELSE eventQ'[k] = eventQ[k]
           /\ (TaskHash \in bindings[k] /\ key \in {TaskCreated, TaskCreatedV2}) => Received(k, key)
           /\ (TaskStar \in bindings[k] /\ key = TaskCreated) => Received(k, key)
           /\ (bindings[k] = {TaskStar} /\ key = TaskCreatedV2) => eventQ'[k] = eventQ[k]]_vars

\* task.created.v2 was published: the gateway, bound with user.* and task.#,
\* received it; the service, bound with task.*, did not.
C18_HashReceivedStarDidNot ==
    /\ Len(eventLog) = 1 /\ LastEvent.routing_key = TaskCreatedV2
    /\ bindings["gw"] = {UserStar, TaskHash} /\ bindings["svc"] = {TaskStar}
    /\ foreign = 0 /\ evDeliveries = {}
    /\ Len(eventQ["gw"]) = 1 /\ eventQ["gw"][1].routing_key = TaskCreatedV2
    /\ eventQ["svc"] = <<>>

\* C19: every event is published with the routing key the caller supplied,
\* the empty string included, and with the event type when the caller
\* supplied none.
C19_SuppliedKeyUsed ==
    \A i \in 1..Len(eventLog) :
        eventLog[i].routing_key = IF eventLog[i].arg.given THEN eventLog[i].arg.key
                                  ELSE eventLog[i].event_type

\* The run of the event callback failed: the body was no JSON or the handler
\* raised.
EventFailed(d) == d.err # NoError

\* The same message was delivered to the same subscriber before and after.
Redelivery(d1, d2) == d1.client = d2.client /\ d1.msg = d2.msg /\ d1.tag < d2.tag

\* C20 as stated: a failed run never propagates its exception, its message is
\* always acknowledged, and no message is delivered to a subscriber twice.
C20_AlwaysAckedNeverRedelivered ==
    /\ \A d \in evDeliveries : EventFailed(d) => d.pc \in {"exit_ok", "acked"}
    /\ \A d1, d2 \in evDeliveries : ~Redelivery(d1, d2)

\* C20: a failed run never propagates its exception: message.process() is
\* left normally.  Its message is acknowledged when the subscriber's channel
\* is still open at that moment, and an acknowledged message is not delivered
\* to that subscriber again; a message is delivered again only after the
\* channel it was delivered on closed before the acknowledgement.
C20_AckedWhileChannelOpen ==
    /\ \A d \in evDeliveries : EventFailed(d) =>
          /\ d.pc \in {"exit_ok", "acked", "unacked"}
          /\ d.pc = "acked" => d.live
          /\ d.pc = "unacked" => ~d.live
    /\ \A d1, d2 \in evDeliveries :
          Redelivery(d1, d2) => ~d1.live /\ d1.pc # "acked"

\* An undecodable event and an event whose handler raised were both
\* acknowledged.
C20_FailedEventsAcked ==
    \E d1, d2 \in evDeliveries :
        /\ d1.err = DecodeErrorExc /\ d1.pc = "acked"
        /\ d2.err \in HandlerErrors /\ d2.pc = "acked"

\* This step ends a close() of client k that had reached the connection
\* (line 75).
CloseEndsAtConnection(k) == closePc[k] = "l75" /\ closePc'[k] = "idle"

\* This step ends a close() of client k whose release of the channel raised.
CloseEndsAtChannel(k) ==
    /\ closePc[k] = "idle"
    /\ lastOp' # lastOp /\ lastOp'.op = "close" /\ lastOp'.client = k

\* C21: close() releases the channel and then the connection, and an error
\* raised while releasing one of them does not prevent the release of the
\* other: a close() whose release of the channel raised ends with the
\* connection released, a close() that reached the connection ends with the
\* channel released, and the channel is released before the connection.
C21_BothReleased ==
    /\ [][\A k \in Clients :
            /\ CloseEndsAtChannel(k) => connection'[k] # "open"
            /\ CloseEndsAtConnection(k) => channel'[k] # "open"]_vars
    /\ [](\A k \in Clients : closePc[k] = "l75" => channel[k] # "open")

\* The client was closed: its channel is a closed one.
Closed(k) == channel[k] = "closed"

\* C22 as stated: a closed client never has an open channel again.
C22_ClosedIsTerminal == [][Closed("gw") => channel'["gw"] # "open"]_vars

\* C22: a closed client does not reconnect by itself: its channel stays
\* closed through every operation but connect(), whose line 58 opens a new
\* channel and makes the client connected again.
C22_ReopenedOnlyByConnect ==
    [][(Closed("gw") /\ ~Closed("gw")') =>
          /\ connPc["gw"] = "l58" /\ connPc'["gw"] = "l61"
          /\ channel'["gw"] = "open" /\ connection'["gw"] = "open"]_vars

\* The client is connected again after a close(): the reply queue it set up
\* before the close is gone from the broker, its channel is open.
C22_ConnectedAfterClose ==
    /\ channel["gw"] = "open" /\ connection["gw"] = "open" /\ connPc["gw"] = "idle"
    /\ callback_queue["gw"] = "set" /\ setupPc["gw"] = "idle" /\ ~replyDeclared["gw"]

ListenerHandles(k) == Len(replyQ'[k]) < Len(replyQ[k])

\* C24: a reply to a request of one client reaches only that client's reply
\* queue, and the listener of a client never touches a call of the other
\* client: every message in a client's reply queue answers a call made on
\* that client, every completed Future was completed by the reply to its own
\* request, and a listener step leaves the Futures and the pending-call table
\* of the other client as they are.
C24_RepliesStayWithTheirClient ==
    /\ [](\A k \in Clients : \A i \in 1..Len(replyQ[k]) :
             \E c \in AllCalls : callCid[c] = replyQ[k][i].cid /\ ClientOf(c) = k)
    /\ [](\A c \in AllCalls : fut[c].state \in {"result", "exception"} => fut[c].src = callCid[c])
    /\ [][\A k \in Clients : ListenerHandles(k) =>
            \A c \in AllCalls : ClientOf(c) # k =>
                /\ fut'[c] = fut[c]
                /\ futures'[ClientOf(c)] = futures[ClientOf(c)]]_vars

\* The gateway's call was resolved by its reply while the call of the service
\* is still pending and registered.
C24_OneResolvedOtherPending ==
    \E c \in PeerCalls :
        /\ fut[1].state = "result" /\ fut[1].src = callCid[1]
        /\ callPc[c] = "wait" /\ fut[c].state = "pending"
        /\ callCid[c] \in DOMAIN futures["svc"]
        /\ \E d \in deliveries : d.msg.cid = callCid[c]

\* A key of a JSON document or of a mapping holds a value.
Populated(v) == v.shape \notin {"null", "none"}

\* Exactly one of data (on success) and error (on failure) is populated.
WellFormed(r) ==
    \/ r.success /\ Populated(r.data) /\ r.error = ""
    \/ ~r.success /\ r.error # "" /\ ~Populated(r.data)

\* The payloads of the replies of run d.
Payloads(d) == {d.sent[i].msg.body.doc : i \in 1..Len(d.sent)}

C26_TableIsOutstandingCalls ==
    \A k \in Clients :
        /\ DOMAIN futures[k] = {callCid[c] : c \in {x \in AllCalls : ClientOf(x) = k /\ Outstanding(x)}}
        /\ \A id \in DOMAIN futures[k] : callCid[futures[k][id]] = id

\* One call was cancelled by its caller and left; the other call is
\* outstanding and the table holds its entry alone.
C26_OneLeftOneOutstanding ==
    \E c, o \in Calls :
        /\ callPc[c] = "done" /\ outcome[c].kind = "CancelledError"
        /\ Outstanding(o) /\ fut[o].state = "pending"
        /\ DOMAIN futures["gw"] = {callCid[o]}

\* The messages of the gateway's calls that the broker or the service holds:
\* requests published, replies published, replies waiting in the reply queue.
InTheBroker ==
    RequestsPublished \cup {replyQ["gw"][i] : i \in 1..Len(replyQ["gw"])}
        \cup UNION {{d.sent[i].msg : i \in 1..Len(d.sent)} : d \in deliveries}

\* C27: a request is visible to the broker only after its call registered
\* its Future: for every request and every reply in the broker, the table
\* holds the entry of its correlation id, or the call of that id has already
\* left and removed it.  The listener never meets a reply whose entry is yet
\* to be inserted.
C27_RegisteredBeforeVisible ==
    \A m \in InTheBroker :
        \E c \in Calls :
            /\ callCid[c] = m.cid
            /\ callPc[c] \in {"wait", "timedout", "done"}
            /\ callPc[c] # "done" => m.cid \in DOMAIN futures["gw"] /\ futures["gw"][m.cid] = c

\* The reply to a waiting call is at the head of the reply queue and the
\* table holds the call's entry.
C27_ReplyMeetsEntry ==
    \E c \in Calls :
        /\ callPc[c] = "wait" /\ fut[c].state = "pending"
        /\ replyQ["gw"] # <<>> /\ Head(replyQ["gw"]).cid = callCid[c]
        /\ callCid[c] \in DOMAIN futures["gw"]

\* The handler of run d has run to completion: it returned a response or the
\* run holds the exception that ended it.
HandlerOver(d) == d.resp # NoValue \/ d.err # NoError

\* C28: a message is acknowledged only by a run that has left the handler and
\* the reply block: the step that acknowledges it starts from the end of
\* message.process(), with the handler over and, when the request names a
\* reply address, a reply or an error reply published; no run is acknowledged
\* otherwise.
C28_AckAfterHandlerAndReply ==
    /\ [](\A d \in deliveries : d.pc = "acked" =>
             /\ HandlerOver(d)
             /\ d.msg.reply_to # "" => Len(d.sent) >= 1)
    /\ [][\A a \in deliveries' \ deliveries : a.pc = "acked" =>
             \E d \in deliveries :
                 /\ d.pc = "exit_ok" /\ a = Left([d EXCEPT !.pc = "acked"])
                 /\ HandlerOver(d)
                 /\ d.msg.reply_to # "" => Len(d.sent) >= 1]_vars

\* One message was acknowledged after its reply was published while the
\* handler of another message is still running, unacknowledged.
C28_AckedBesideRunningHandler ==
    \E a, d \in deliveries :
        /\ a.pc = "acked" /\ a.msg.reply_to # "" /\ Len(a.sent) = 1
        /\ d.pc = "handler" /\ d.live

\* C29 as stated: of two messages of a consumer, the one whose handler
\* completed first is acknowledged first.
C29_AckedInCompletionOrder ==
    \A m1, m2 \in deliveries :
        (/\ m1.client = m2.client /\ m1.tag < m2.tag
         /\ m2.doneAt # 0 /\ m2.doneAt < m1.doneAt
         /\ m2.live /\ m2.pc \in {"exit_ok", "acked"}
         /\ m1.pc = "acked")
        => m2.pc = "acked" /\ m2.ackAt < m1.ackAt

\* C29: messages are acknowledged independently of each other, not in the
\* order of delivery: a run that has completed on an open channel can leave
\* message.process() and acknowledge its message at once, whatever the runs
\* of the messages delivered before it are doing, and a message is
\* acknowledged only after its own run completed.
C29_AckedIndependently ==
    \A d \in deliveries :
        /\ (d.pc = "exit_ok" /\ d.live) =>
              ENABLED (process_exit(d) /\ (Left([d EXCEPT !.pc = "acked"]) \in deliveries'))
        /\ d.pc = "acked" => d.doneAt # 0 /\ d.ackAt # 0

\* m2, delivered after m1, completed and was acknowledged while the handler
\* of m1 is still running.
C29_LaterMessageAckedFirst ==
    \E m1, m2 \in deliveries :
        /\ m1.client = m2.client /\ m1.consumer = m2.consumer /\ m1.tag < m2.tag
        /\ m1.pc = "handler" /\ m1.live
        /\ m2.pc = "acked"

\* This step is the timeout of call c: its timer fires, or the call resumes
\* after that, raises TimeoutError and removes its entry.
TimeoutStep(c) ==
    \/ callPc[c] = "wait" /\ callPc'[c] = "timedout"
    \/ callPc[c] = "timedout" /\ callPc'[c] = "done"

\* C30: the timeout of one call leaves every other call of the client as it
\* is: its position, its Future and its entry in the table.  Another call
\* that is waiting on a pending Future can still time out by itself, and the
\* reply that matches it still completes its Future, after as before.
C30_TimeoutsAreIndependent ==
    /\ [][\A c, o \in Calls : (TimeoutStep(c) /\ o # c) =>
            /\ callPc'[o] = callPc[o] /\ fut'[o] = fut[o] /\ outcome'[o] = outcome[o]
            /\ callCid[o] \in DOMAIN futures["gw"] =>
                  /\ callCid[o] \in DOMAIN futures'["gw"]
                  /\ futures'["gw"][callCid[o]] = futures["gw"][callCid[o]]]_vars
    /\ [][\A c, o \in Calls :
            (TimedOut(c) /\ o # c /\ ListenerStep("gw") /\ MatchingHead("gw", o)) =>
                 fut'[o].state \in {"result", "exception"} /\ fut'[o].src = callCid[o]]_vars
    /\ [](\A c, o \in Calls :
            (TimedOut(c) /\ o # c /\ callPc[o] = "wait" /\ fut[o].state = "pending") =>
                 ENABLED call_timeout(o))

\* One call has raised TimeoutError; the other, still waiting, got its result
\* from its own reply and holds its entry.
C30_OneTimedOutOtherResolved ==
    \E c, o \in Calls :
        /\ callPc[c] = "done" /\ outcome[c].kind = "TimeoutError"
        /\ callPc[o] = "wait" /\ fut[o].state = "result" /\ fut[o].src = callCid[o]
        /\ DOMAIN futures["gw"] = {callCid[o]}

(* ------------------------------ C31 ------------------------------------ *)

\* The body of the message of this run could not be decoded.
Undecodable(d) == ~d.msg.body.valid

\* The handler was never awaited in this run: it is not running and has left
\* neither a response nor an exception of its own.
NotInvoked(d) == d.pc # "handler" /\ d.resp = NoValue /\ d.err \notin HandlerErrors

\* C31 as the specification states it: for a message whose body cannot be
\* decoded the handler is not invoked, the error reply with the message's
\* correlation id is published if the message has a reply_to, and the message
\* is acknowledged.
C31_DecodeFailureRepliedAndAcked ==
    \A d \in deliveries :
        Undecodable(d) =>
            /\ NotInvoked(d)
            /\ d.err = DecodeErrorExc
            /\ d.sent = IF d.msg.reply_to # "" THEN <<ErrorReply(d)>> ELSE <<>>
            /\ Finished(d) => d.pc = "acked"

\* C31: for a message whose body cannot be decoded the handler is not
\* invoked and the decoding error is handled as a handler exception is: the
\* error reply with the message's correlation id is published if the message
\* has a reply_to, and nothing otherwise.  The message is then acknowledged
\* as long as the consumer's channel is still open; when the channel was
\* closed between the error reply and the acknowledgement, the message stays
\* unacknowledged.  It is never rejected.
C31_DecodeFailureRepliedAckedWhileOpen ==
    \A d \in deliveries :
        Undecodable(d) =>
            /\ NotInvoked(d)
            /\ d.err = DecodeErrorExc
            /\ d.sent = IF d.msg.reply_to # "" THEN <<ErrorReply(d)>> ELSE <<>>
            /\ d.pc \in {"exit_ok", "acked", "unacked"}
            /\ d.pc = "unacked" => ~d.live
            /\ (d.live /\ Finished(d)) => d.pc = "acked"

\* Two undecodable messages were acknowledged: for the one with a reply_to
\* the error reply was published, for the other nothing was.
C31_UndecodableRepliedAndSilent ==
    \E d1, d2 \in deliveries :
        /\ Undecodable(d1) /\ d1.pc = "acked" /\ d1.msg.reply_to = "gw"
        /\ d1.sent = <<ErrorReply(d1)>> /\ d1.sent[1].msg.cid = d1.msg.cid
        /\ Undecodable(d2) /\ d2.pc = "acked" /\ d2.msg.reply_to = ""
        /\ d2.sent = <<>>

(* ------------------------------ C32 ------------------------------------ *)

RECURSIVE SentCount(_)
SentCount(S) ==
    IF S = {} THEN 0
    ELSE LET d == CHOOSE x \in S : TRUE IN Len(d.sent) + SentCount(S \ {d})

\* The message of this run has no reply_to.
NoReplyAddress(d) == d.msg.reply_to = ""

\* C33 as the specification states it: for a message without a reply_to the
\* consumer publishes nothing, whether the handler returned or raised, and the
\* message is acknowledged.
C33_NothingPublishedAndAcked ==
    \A d \in deliveries :
        NoReplyAddress(d) =>
            /\ d.sent = <<>>
            /\ Finished(d) => d.pc = "acked"

\* C33: no step of a run whose message has no reply_to publishes anything:
\* the number of messages published by the consumer and the reply queues are
\* unchanged by it, whether the handler returned or raised.  No exception
\* leaves message.process(), and the message is acknowledged as long as the
\* consumer's channel is still open; when the channel was closed while the
\* message was processed, the message stays unacknowledged.
C33_NothingPublishedAckedWhileOpen ==
    [][\A d \in deliveries' \ deliveries :
          NoReplyAddress(d) =>
              /\ SentCount(deliveries') = SentCount(deliveries)
              /\ replyQ' = replyQ
              /\ d.sent = <<>>
              /\ d.pc \in {"handler", "exit_ok", "acked", "unacked"}
              /\ d.pc = "unacked" => ~d.live
              /\ (d.live /\ Finished(d)) => d.pc = "acked"]_vars

\* Two messages without a reply_to were acknowledged, one after the handler
\* returned and one after it raised, and nothing was published for either.
C33_SilentOnSuccessAndOnException ==
    \E d1, d2 \in deliveries :
        /\ NoReplyAddress(d1) /\ d1.resp \in HandlerResponses /\ d1.err = NoError
        /\ NoReplyAddress(d2) /\ d2.err \in HandlerErrors
        /\ d1.pc = "acked" /\ d2.pc = "acked"
        /\ d1.sent = <<>> /\ d2.sent = <<>>
        /\ SentCount(deliveries) = 0

(* ------------------------------ C34 ------------------------------------ *)

\* The paths of _on_rpc_response().
Branches == {"resolved", "unmatched", "no_correlation_id", "decode_error"}

Succeeded(kind, key) ==
    {r \in creates : r.kind = kind /\ r.data.key = key /\ r.pc = "done" /\ r.response.success}

\* C35: of the create_user commands that carry the same email at most one
\* returns success true, and at most one user with that email exists, however
\* the handlers interleave; the same for create_tag and the tag name.
C35_AtMostOnePerKey ==
    \A kind \in {"user", "tag"}, key \in Emails \cup TagNames :
        /\ Cardinality(Succeeded(kind, key)) <= 1
        /\ Cardinality({row \in tables[kind] : row.key = key}) <= 1
        /\ \A r \in Succeeded(kind, key) : r.response.row \in tables[kind]

\* Two create_user commands with the same email and two create_tag commands
\* with the same name were handled together: each passed the check for an
\* existing row before the other inserted; one of each pair returned success,
\* the other the violation of the unique constraint, and one row exists.
C35_RaceLostOnUniqueConstraint ==
    \A kind \in {"user", "tag"} : \E r1, r2 \in creates :
        /\ r1.kind = kind /\ r2.kind = kind
        /\ r1.data.key = r2.data.key /\ r1.id # r2.id
        /\ r1.data.username # r2.data.username \/ kind = "tag"
        /\ r1.pc = "done" /\ r1.response.success
        /\ r2.pc = "done" /\ ~r2.response.success
        /\ r2.response.error_type = "UniqueViolationError"
        /\ Cardinality({row \in tables[r1.kind] : row.key = r1.data.key}) = 1

(* ------------------------------ C36 ------------------------------------ *)

\* C36: handle_command never raises to the consumer: for every payload it
\* returns a mapping, and for a command that is not one of TaskCommands the
\* mapping has success false and an error text.
C36_NeverRaisesToTheConsumer ==
    \A x \in dispatched :
        /\ x.result.raised = ""
        /\ x.payload.command \notin TaskCommands =>
              (~x.result.response.success /\ x.result.response.error # "")

\* What the dispatcher does guarantee: for a payload that is a dict it never
\* raises, whatever the handler does, and it answers an unknown or missing
\* command with the UnknownCommand mapping.
C36_DictPayloadNeverRaises ==
    \A x \in dispatched :
        x.payload.type = "dict" =>
            /\ x.result.raised = ""
            /\ x.payload.command \notin TaskCommands =>
                  x.result.response = Response(FALSE, NoData, "Unknown command", "UnknownCommand")
            /\ x.handler.kind = "raise" =>
                  (~x.result.response.success /\ x.result.response.error_type = x.handler.exc.type)

\* A payload that is no dict was dispatched and AttributeError was raised to
\* the consumer.
C36_NonDictPayloadRaised ==
    \E x \in dispatched : x.payload.type = "list" /\ x.result.raised = "AttributeError"

====
